---- MODULE Spec2Model ----
(***************************************************************************)
(* Scene editing engine of the Love2D editor suite (SceneEditor): view,    *)
(* toolbar, inbound scene and object requests, and the pointer tools.      *)
(*                                                                         *)
(* JavaScript numbers are modelled as extended rationals: a record         *)
(* [n, d] in lowest terms with d > 0 is the number n/d, and d = 0 encodes  *)
(* the non-finite values: [1,0] = Infinity, [-1,0] = -Infinity and         *)
(* [0,0] = NaN.  Arithmetic is exact (no binary rounding).                 *)
(***************************************************************************)
EXTENDS Integers, Sequences, FiniteSets, Bags, TLC

(***************************************************************************)
(* Bounds of the model                                                     *)
(***************************************************************************)
MaxObjects == 2
MaxDrags == 2
MaxClock == 1
MaxZoomSize == 11
MaxPan == 32
MaxSnap == 50
MaxHandlers == 3
MaxOnce == 2
MaxReentry == 1
MaxPending == 2
MaxInitCalls == 2
ModuleNames == {"a", "b"}
PanelIds == {"hierarchy", "inspector"}
MaxWrites == 3
Paths == {"scene.json", "notes.txt"}
Encodings == {"utf8", "latin1"}
NoRead == [path |-> "", encoding |-> "", content |-> -1, threw |-> FALSE]
NoPanel == [none |-> TRUE]

(***************************************************************************)
(* JavaScript number arithmetic                                            *)
(***************************************************************************)
Abs(i) == IF i < 0 THEN -i ELSE i

Sign(i) == IF i < 0 THEN -1 ELSE IF i > 0 THEN 1 ELSE 0

RECURSIVE GCD(_, _)
GCD(a, b) == IF b = 0 THEN a ELSE GCD(b, a % b)

Norm(n, d) ==
  IF d = 0 THEN [n |-> Sign(n), d |-> 0]
  ELSE LET g == GCD(Abs(n), Abs(d))
       IN  [n |-> (Sign(d) * n) \div g, d |-> Abs(d) \div g]

Num(i) == [n |-> i, d |-> 1]
NaN == [n |-> 0, d |-> 0]
Infinity == [n |-> 1, d |-> 0]
IsNaN(a) == a.n = 0 /\ a.d = 0
IsFinite(a) == a.d # 0

jsNeg(a) == [n |-> -a.n, d |-> a.d]

jsAdd(a, b) ==
  IF IsNaN(a) \/ IsNaN(b) THEN NaN
  ELSE IF a.d = 0 /\ b.d = 0 THEN (IF a.n = b.n THEN a ELSE NaN)
  ELSE IF a.d = 0 THEN a
  ELSE IF b.d = 0 THEN b
  ELSE Norm(a.n * b.d + b.n * a.d, a.d * b.d)

jsSub(a, b) == jsAdd(a, jsNeg(b))

jsMul(a, b) == Norm(a.n * b.n, a.d * b.d)

jsInv(b) ==
  IF IsNaN(b) THEN NaN
  ELSE IF b.d = 0 THEN Num(0)
  ELSE IF b.n = 0 THEN Infinity
  ELSE Norm(Sign(b.n) * b.d, Abs(b.n))

jsDiv(a, b) == jsMul(a, jsInv(b))

\* a < b ; false as soon as one side is NaN
jsLt(a, b) ==
  IF IsNaN(a) \/ IsNaN(b) THEN FALSE
  ELSE IF a.d = 0 /\ b.d = 0 THEN a.n < b.n
  ELSE IF a.d = 0 THEN a.n < 0
  ELSE IF b.d = 0 THEN b.n > 0
  ELSE a.n * b.d < b.n * a.d

\* a >= b ; false as soon as one side is NaN
jsGe(a, b) == ~IsNaN(a) /\ ~IsNaN(b) /\ ~jsLt(a, b)

jsLe(a, b) == jsGe(b, a)

MathMax(a, b) ==
  IF IsNaN(a) \/ IsNaN(b) THEN NaN ELSE IF jsLt(a, b) THEN b ELSE a

MathMin(a, b) ==
  IF IsNaN(a) \/ IsNaN(b) THEN NaN ELSE IF jsLt(b, a) THEN b ELSE a

MathFloor(a) == IF a.d = 0 THEN a ELSE Num(a.n \div a.d)

MathCeil(a) == IF a.d = 0 THEN a ELSE Num(-((-a.n) \div a.d))

\* Math.round rounds half-way cases towards +Infinity
MathRound(a) == IF a.d = 0 THEN a ELSE Num((2 * a.n + a.d) \div (2 * a.d))

\* value || fallback for numbers: 0 and NaN are falsy
OrDefault(a, dflt) == IF IsNaN(a) \/ (a.d # 0 /\ a.n = 0) THEN dflt ELSE a

(***************************************************************************)
(* State of the SceneEditor instance and of its collaborators              *)
(***************************************************************************)
VARIABLES
  hasCanvas,        \* this.canvas / this.ctx exist (set by initUI)
  canvas,           \* [width, height] of the drawing surface
  hasScene,         \* this.activeScene is not null
  activeScene,      \* [width, height, layers, activeLayer]
  sceneGen,         \* identity of the scene object held by activeScene
  selectedObjects,  \* sequence of object ids
  inspectorSelectedObjects, \* the Inspector's selectedObjects
  snapToGrid,
  zoom,
  panOffset,        \* [x, y]
  isDragging,
  isPanning,
  activeTool,
  dragInfo,         \* [set, objects] ; set = FALSE is null
  rotateInfo,
  scaleInfo,
  lastPlacedTile,   \* [set, x, y]   ; set = FALSE is null
  appTileset,       \* this.app.tileset is set
  appSelectedTile,  \* this.app.selectedTile
  now,              \* Date.now()
  frame,            \* what the last render() drew
  ev,               \* name of the event handled last
  nDrags,           \* number of drags started so far
  paint,            \* current paint stroke: cell under the pointer, writes to it
  arg,              \* input of the pure function under test
  result,           \* its output, once applied
  eventHandlers,    \* EventBus: the subscriptions of the event, in order
  wrappers,         \* number of once-wrappers made so far
  invoked,          \* per once-wrapper, the calls of the handler it wraps
  delivered,        \* the invocations of the emit just made: [sub, em]
  started,          \* per emission of that emit, the subscriptions at its start
  modules,          \* ModuleManager: the registered names, in key order
  dependencies,     \* per name, the declared dependencies
  initialized,      \* per name: "absent" (no key), "no" or "yes"
  initCalls,        \* per registered name, the calls of the instance's initialize()
  pendingInits,     \* the initialize()/initializeAll() calls that are awaiting (a bag)
  settled,          \* what the call that returned last returned
  panels,           \* UIManager: per panel id, the panel or NoPanel
  layout,           \* the layout saveLayout stored last
  toggleCalls,      \* the toggle activations of the last handler, nested ones included
  toggled,          \* what the last toggle returned
  disk,             \* FileSystemManager: per path, the version on disk (-1: no file)
  fileCache,        \* per path and encoding, the cached version (-1: no entry)
  written,          \* per path, the version of the last writeFile that succeeded
  readResult,       \* what the last readFile returned
  recentProjects,   \* ConfigurationManager: appConfig.recentProjects
  configSaved,      \* whether config.json holds the configuration in memory
  added             \* the arguments of the last addRecentProject call

viewVars == <<hasCanvas, canvas, snapToGrid, zoom, panOffset, frame>>
sceneVars == <<hasScene, activeScene, sceneGen, selectedObjects>>
toolVars == <<isDragging, isPanning, activeTool, dragInfo, rotateInfo, scaleInfo, lastPlacedTile>>
envVars == <<appTileset, appSelectedTile, now, inspectorSelectedObjects>>
ghostVars == <<nDrags, paint>>
pureVars == <<arg, result>>
editorVars == <<viewVars, sceneVars, toolVars, envVars, ghostVars, pureVars>>
busVars == <<eventHandlers, wrappers, invoked, delivered, started>>
moduleVars == <<modules, dependencies, initialized, initCalls, pendingInits, settled>>
panelVars == <<panels, layout, toggleCalls, toggled>>
fileVars == <<disk, fileCache, written, readResult>>
configVars == <<recentProjects, configSaved, added>>
coreVars == <<busVars, moduleVars, panelVars, fileVars, configVars>>
vars == <<editorVars, ev, coreVars>>

gridSize == 32

Tools == {"select", "move", "rotate", "scale", "tile"}

NoInfo == [set |-> FALSE, objects |-> <<>>]
NoTile == [set |-> FALSE, x |-> Num(0), y |-> Num(0)]
NoFrame == [drawn |-> FALSE, sceneX |-> Num(0), sceneY |-> Num(0),
            sceneWidth |-> Num(0), sceneHeight |-> Num(0), order |-> <<>>, at |-> <<>>]

NoPaint == [inCell |-> FALSE, x |-> Num(0), y |-> Num(0), writes |-> 0, stayed |-> FALSE]

Id(p, t) == [p |-> p, t |-> t]

ThreeLayers ==
  << [id |-> "layer_1", visible |-> TRUE, objects |-> <<>>],
     [id |-> "layer_2", visible |-> TRUE, objects |-> <<>>],
     [id |-> "layer_3", visible |-> TRUE, objects |-> <<>>] >>

NoSceneValue == [width |-> Num(0), height |-> Num(0), layers |-> <<>>, activeLayer |-> ""]

\* A scene object; the tilemap fields of other object types are unused.
Obj(id, type, x, y, w, h) ==
  [id |-> id, type |-> type, x |-> x, y |-> y, width |-> w, height |-> h,
   rotation |-> Num(0), tileSize |-> Num(0), columns |-> Num(0), rows |-> Num(0),
   tileData |-> <<>>]

\* index of the first element with the property, 0 when there is none
First(hits) == IF hits = {} THEN 0 ELSE CHOOSE i \in hits : \A j \in hits : i <= j

\* k zeros (an empty tile layer) ; k holes of a sparse array, written -1
Zeros(k) == [i \in 1..k |-> 0]

Holes(k) == [i \in 1..k |-> -1]

\* array[idx] = value ; idx is a JavaScript number.  A non-negative integer
\* index beyond the end grows the array leaving holes (-1); any other index
\* only adds a named property and leaves the elements alone.
ArraySet(arr, idx, value) ==
  IF idx.d # 1 \/ idx.n < 0 THEN arr
  ELSE IF idx.n < Len(arr) THEN [arr EXCEPT ![idx.n + 1] = value]
  ELSE arr \o Holes(idx.n - Len(arr)) \o <<value>>

\* objects.findIndex(obj => obj.id === id)
FindId(objs, id) == First({i \in 1..Len(objs) : objs[i].id = id})

\* objects.find(obj => obj.type === 'tilemap')
FindTilemap(objs) == First({i \in 1..Len(objs) : objs[i].type = "tilemap"})

\* a lookup that falls back on the first layer
ActiveLayerIndex_FirstLayer(scene) ==
  IF \E i \in 1..Len(scene.layers) : scene.layers[i].id = scene.activeLayer
  THEN First({i \in 1..Len(scene.layers) : scene.layers[i].id = scene.activeLayer})
  ELSE IF Len(scene.layers) > 0 THEN 1 ELSE 0

\* layers.find(layer => layer.id === scene.activeLayer), 0 when undefined
ActiveLayerIndex(scene) ==
  First({i \in 1..Len(scene.layers) : scene.layers[i].id = scene.activeLayer})

RECURSIVE LayerOfFrom(_, _, _)
LayerOfFrom(scene, li, id) ==
  IF li > Len(scene.layers) THEN 0
  ELSE IF FindId(scene.layers[li].objects, id) # 0 THEN li
  ELSE LayerOfFrom(scene, li + 1, id)

\* first layer (in array order) holding an object with this id, 0 when none
LayerOf(scene, id) == LayerOfFrom(scene, 1, id)

\* the object the loops "for layer of layers: layer.objects.find(id)" reach
ObjectOf(scene, id) ==
  LET li == LayerOf(scene, id)
  IN  scene.layers[li].objects[FindId(scene.layers[li].objects, id)]

RECURSIVE CountObjectsFrom(_, _)
CountObjectsFrom(scene, li) ==
  IF li > Len(scene.layers) THEN 0
  ELSE Len(scene.layers[li].objects) + CountObjectsFrom(scene, li + 1)

CountObjects(scene) == CountObjectsFrom(scene, 1)

(***************************************************************************)
(* Coordinate mapper and renderer                                          *)
(***************************************************************************)
\* screen position of the scene's top-left corner, as render() computes it
\* the centring division left out
SceneOriginX_NotHalved(scene, z, pan, cv) ==
  jsAdd(jsSub(cv.width, jsMul(scene.width, z)), pan.x)

SceneOriginX(scene, z, pan, cv) ==
  jsAdd(jsDiv(jsSub(cv.width, jsMul(scene.width, z)), Num(2)), pan.x)

SceneOriginY(scene, z, pan, cv) ==
  jsAdd(jsDiv(jsSub(cv.height, jsMul(scene.height, z)), Num(2)), pan.y)

\* the zoom left out of the product
SceneToScreen_Unscaled(v, origin, z) == jsAdd(origin, v)

\* scene -> screen, as renderObject() places an object
SceneToScreen(v, origin, z) == jsAdd(origin, jsMul(v, z))

\* screen -> scene, the inverse affine map of the pointer handlers
ScreenToScene(s, origin, z) == jsDiv(jsSub(s, origin), z)

RECURSIVE RenderOrderFrom(_, _)
RenderOrderFrom(scene, li) ==
  IF li > Len(scene.layers) THEN <<>>
  ELSE (IF scene.layers[li].visible
        THEN [k \in 1..Len(scene.layers[li].objects) |-> [layer |-> li, idx |-> k]]
        ELSE <<>>) \o RenderOrderFrom(scene, li + 1)

\* layers drawn last to first
RECURSIVE RenderOrderDown(_, _)
RenderOrderDown(scene, li) ==
  IF li = 0 THEN <<>>
  ELSE (IF scene.layers[li].visible
        THEN [k \in 1..Len(scene.layers[li].objects) |-> [layer |-> li, idx |-> k]]
        ELSE <<>>) \o RenderOrderDown(scene, li - 1)

renderLayers_TopFirst(scene) == RenderOrderDown(scene, Len(scene.layers))

\* the objects renderLayers() draws, first drawn first
renderLayers(scene) == RenderOrderFrom(scene, 1)

DrawFrame(scene, z, pan, cv) ==
  [drawn |-> TRUE,
   sceneX |-> SceneOriginX(scene, z, pan, cv),
   sceneY |-> SceneOriginY(scene, z, pan, cv),
   sceneWidth |-> jsMul(scene.width, z),
   sceneHeight |-> jsMul(scene.height, z),
   order |-> [k \in 1..Len(renderLayers(scene)) |->
                scene.layers[renderLayers(scene)[k].layer].objects[renderLayers(scene)[k].idx].id],
   at |-> [k \in 1..Len(renderLayers(scene)) |->
             LET object == scene.layers[renderLayers(scene)[k].layer].objects[renderLayers(scene)[k].idx]
             IN  [x |-> SceneToScreen(object.x, SceneOriginX(scene, z, pan, cv), z),
                  y |-> SceneToScreen(object.y, SceneOriginY(scene, z, pan, cv), z)]]]

\* this.render() as the last step of a handler: draws the state the handler
\* leaves behind, or returns at once when surface or scene is missing.
render ==
  IF hasCanvas' /\ hasScene'
  THEN frame' = DrawFrame(activeScene', zoom', panOffset', canvas')
  ELSE frame' = frame

(***************************************************************************)
(* Inputs of the model                                                     *)
(***************************************************************************)
Pt(x, y) == [x |-> Num(x), y |-> Num(y)]

\* pointer movements, in screen pixels
Deltas == {Pt(32, 32), Pt(-32, -32)}

\* arguments of setZoom
ZoomArgs == {Num(0), Num(2), Num(7)}

\* sizes of the scene panel
DefaultPanel == [width |-> Num(800), height |-> Num(600)]

PanelSizes == {DefaultPanel, [width |-> Num(400), height |-> Num(300)]}

\* scene:new configurations ; 0 stands for an absent field
DefaultConfig == [width |-> Num(0), height |-> Num(0)]

SmallConfig == [width |-> Num(96), height |-> Num(64)]

SceneConfigs == {DefaultConfig, SmallConfig}

\* a scene of 10 x 10 tiles
PaintConfig == [width |-> Num(320), height |-> Num(320)]

Tilemap2x2 ==
  [Obj(Id("map", 0), "tilemap", Num(0), Num(0), Num(64), Num(64))
     EXCEPT !.tileSize = Num(32), !.columns = Num(2), !.rows = Num(2),
            !.tileData = <<0, 0, 0, 0>>]

\* scene:load payloads
\* two overlapping rectangles and a third one in a hidden layer above them
OverlapScene ==
  [width |-> Num(800), height |-> Num(600), activeLayer |-> "layer_1",
   layers |-> << [id |-> "layer_1", visible |-> TRUE,
                  objects |-> << Obj(Id("low", 0), "rectangle", Num(100), Num(100), Num(50), Num(50)),
                                 Obj(Id("mid", 0), "rectangle", Num(120), Num(120), Num(50), Num(50)) >>],
                 [id |-> "layer_2", visible |-> FALSE,
                  objects |-> << Obj(Id("top", 0), "rectangle", Num(110), Num(110), Num(50), Num(50)) >>] >>]

\* two rectangles apart, one of them at the scene's origin
MoveScene ==
  [width |-> Num(800), height |-> Num(600), activeLayer |-> "layer_1",
   layers |-> << [id |-> "layer_1", visible |-> TRUE,
                  objects |-> << Obj(Id("origin", 0), "rectangle", Num(0), Num(0), Num(50), Num(50)),
                                 Obj(Id("low", 0), "rectangle", Num(100), Num(100), Num(50), Num(50)) >>] >>]

\* a scene with a tilemap in its active layer
TilemapScene ==
  [width |-> Num(64), height |-> Num(64), activeLayer |-> "layer_1",
   layers |-> << [id |-> "layer_1", visible |-> TRUE, objects |-> << Tilemap2x2 >>] >>]

\* a scene without layers
EmptyScene ==
  [width |-> Num(800), height |-> Num(600), activeLayer |-> "layer_1", layers |-> << >>]

\* a scene whose activeLayer names none of its layers
OrphanScene ==
  [width |-> Num(64), height |-> Num(64), activeLayer |-> "layer_9",
   layers |-> << [id |-> "layer_1", visible |-> TRUE, objects |-> << Tilemap2x2 >>] >>]

LoadScenes == {OverlapScene, TilemapScene, EmptyScene}

\* object:add descriptors ; hasId = FALSE and 0 stand for absent fields
AddInputs ==
  { [hasId |-> TRUE, id |-> Id("a", 0), type |-> "rectangle",
     x |-> Num(100), y |-> Num(100), width |-> Num(50), height |-> Num(50)],
    [hasId |-> FALSE, id |-> Id("", 0), type |-> "rectangle",
     x |-> Num(0), y |-> Num(0), width |-> Num(0), height |-> Num(0)] }

\* object:properties patches, one field each
TilemapPatches ==
  { [field |-> "columns", value |-> Num(3)],
    [field |-> "x", value |-> Num(32)] }

Patches == TilemapPatches \cup { [field |-> "width", value |-> Num(5)] }

RECURSIVE IdsFrom(_, _)
IdsFrom(scene, li) ==
  IF li > Len(scene.layers) THEN {}
  ELSE {scene.layers[li].objects[k].id : k \in 1..Len(scene.layers[li].objects)}
         \cup IdsFrom(scene, li + 1)

\* ids a collaborator may name: those in the scene and one that is not
KnownIds == IdsFrom(activeScene, 1) \cup {Id("gone", 0)}

(***************************************************************************)
(* Construction                                                            *)
(***************************************************************************)
\* the editor as its constructor leaves it
Constructed ==
  /\ hasCanvas = FALSE
  /\ canvas = [width |-> Num(0), height |-> Num(0)]
  /\ hasScene = FALSE
  /\ activeScene = NoSceneValue
  /\ sceneGen = 0
  /\ selectedObjects = <<>>
  /\ inspectorSelectedObjects = <<>>
  /\ snapToGrid = TRUE
  /\ zoom = Num(1)
  /\ panOffset = Pt(0, 0)
  /\ isDragging = FALSE
  /\ isPanning = FALSE
  /\ activeTool = "select"
  /\ dragInfo = NoInfo
  /\ rotateInfo = NoInfo
  /\ scaleInfo = NoInfo
  /\ lastPlacedTile = NoTile
  /\ appTileset = FALSE
  /\ appSelectedTile = 0
  /\ now = 0
  /\ frame = NoFrame
  /\ ev = "constructor"
  /\ nDrags = 0
  /\ paint = NoPaint
  /\ eventHandlers = <<>>
  /\ wrappers = 0
  /\ invoked = [k \in 1..MaxOnce |-> 0]
  /\ delivered = <<>>
  /\ started = <<>>
  /\ modules = <<>>
  /\ dependencies = [name \in ModuleNames |-> <<>>]
  /\ initialized = [name \in ModuleNames |-> "absent"]
  /\ initCalls = [name \in ModuleNames |-> 0]
  /\ pendingInits = EmptyBag
  /\ settled = "none"
  /\ panels = [id \in PanelIds |-> NoPanel]
  /\ layout = NoPanel
  /\ toggleCalls = 0
  /\ toggled = FALSE
  /\ disk = [path \in Paths |-> IF path = "scene.json" THEN 0 ELSE -1]
  /\ fileCache = [key \in Paths \X Encodings |-> -1]
  /\ written = [path \in Paths |-> 0]
  /\ readResult = NoRead
  /\ recentProjects = <<>>
  /\ configSaved = FALSE
  /\ added = [path |-> 0, name |-> ""]

Init ==
  /\ Constructed
  /\ arg = <<>>
  /\ result = <<>>

createDefaultScene ==
  [width |-> Num(800), height |-> Num(600), layers |-> ThreeLayers, activeLayer |-> "layer_2"]

\* initUI: creates the canvas, sizes it to the panel and, when no scene was
\* delivered before, creates the default scene.
initUI(size) ==
  /\ ~hasCanvas
  /\ hasCanvas' = TRUE
  /\ canvas' = size
  /\ hasScene' = TRUE
  /\ activeScene' = IF hasScene THEN activeScene ELSE createDefaultScene
  /\ UNCHANGED <<sceneGen, selectedObjects, snapToGrid, zoom, panOffset>>
  /\ UNCHANGED <<toolVars, envVars>>
  /\ render
  /\ UNCHANGED ghostVars
  /\ ev' = "initUI"
  /\ UNCHANGED <<pureVars, coreVars>>

onResize(size) ==
  /\ hasCanvas
  /\ canvas' = size
  /\ UNCHANGED <<hasCanvas, snapToGrid, zoom, panOffset>>
  /\ UNCHANGED <<sceneVars, toolVars, envVars>>
  /\ render
  /\ UNCHANGED ghostVars
  /\ ev' = "resize"
  /\ UNCHANGED <<pureVars, coreVars>>

(***************************************************************************)
(* Toolbar                                                                 *)
(***************************************************************************)
setActiveTool(toolId) ==
  /\ toolId \in Tools
  /\ activeTool' = toolId
  /\ UNCHANGED <<isDragging, isPanning, dragInfo, rotateInfo, scaleInfo, lastPlacedTile>>
  /\ UNCHANGED <<viewVars, sceneVars, envVars>>
  /\ UNCHANGED ghostVars
  /\ ev' = "setActiveTool"
  /\ UNCHANGED <<pureVars, coreVars>>

\* the lower limit left out
ClampZoom_NoFloor(z) == MathMin(Num(5), z)

\* Math.max(0.1, Math.min(5.0, zoom))
ClampZoom(z) == MathMax(Norm(1, 10), MathMin(Num(5), z))

setZoom(z) ==
  /\ zoom' = ClampZoom(z)
  /\ UNCHANGED <<hasCanvas, canvas, snapToGrid, panOffset>>
  /\ UNCHANGED <<sceneVars, toolVars, envVars>>
  /\ render
  /\ UNCHANGED ghostVars
  /\ ev' = "setZoom"
  /\ UNCHANGED <<pureVars, coreVars>>

\* the zoom buttons; the model stops clicking once the fraction gets long
ZoomInClick ==
  /\ hasCanvas
  /\ zoom.n + zoom.d <= MaxZoomSize
  /\ setZoom(jsMul(zoom, Norm(12, 10)))

ZoomOutClick ==
  /\ hasCanvas
  /\ zoom.n + zoom.d <= MaxZoomSize
  /\ setZoom(jsDiv(zoom, Norm(12, 10)))

SnapClick ==
  /\ hasCanvas
  /\ snapToGrid' = ~snapToGrid
  /\ UNCHANGED <<hasCanvas, canvas, zoom, panOffset, frame>>
  /\ UNCHANGED <<sceneVars, toolVars, envVars>>
  /\ UNCHANGED ghostVars
  /\ ev' = "snapClick"
  /\ UNCHANGED <<pureVars, coreVars>>

(***************************************************************************)
(* Global editor state the tile tool reads, and the clock                  *)
(***************************************************************************)
SelectTile(hasTileset, tile) ==
  /\ appTileset' = hasTileset
  /\ appSelectedTile' = tile
  /\ <<hasTileset, tile>> # <<appTileset, appSelectedTile>>
  /\ UNCHANGED <<now, inspectorSelectedObjects>>
  /\ UNCHANGED <<viewVars, sceneVars, toolVars>>
  /\ UNCHANGED ghostVars
  /\ ev' = "selectTile"
  /\ UNCHANGED <<pureVars, coreVars>>

Tick ==
  /\ now < MaxClock
  /\ now' = now + 1
  /\ UNCHANGED inspectorSelectedObjects
  /\ UNCHANGED <<appTileset, appSelectedTile>>
  /\ UNCHANGED <<viewVars, sceneVars, toolVars, ev, ghostVars, pureVars, coreVars>>

(***************************************************************************)
(* Inbound requests: scene:new, scene:load, object:add, object:remove,     *)
(* object:select, object:properties                                        *)
(***************************************************************************)
InfoGens(info) == {info.objects[k].gen : k \in 1..Len(info.objects)}

\* identity of a newly created scene object: one that nothing refers to yet
FreshGen ==
  LET used == {sceneGen} \cup InfoGens(dragInfo) \cup InfoGens(rotateInfo) \cup InfoGens(scaleInfo)
  IN  CHOOSE g \in 0..4 : g \notin used /\ \A h \in 0..4 : h \notin used => g <= h

onNewScene(sceneConfig) ==
  /\ activeScene' = [width |-> OrDefault(sceneConfig.width, Num(800)),
                     height |-> OrDefault(sceneConfig.height, Num(600)),
                     layers |-> ThreeLayers,
                     activeLayer |-> "layer_2"]
  /\ hasScene' = TRUE
  /\ sceneGen' = FreshGen
  /\ selectedObjects' = <<>>
  /\ zoom' = Num(1)
  /\ panOffset' = Pt(0, 0)
  /\ UNCHANGED <<hasCanvas, canvas, snapToGrid>>
  /\ UNCHANGED <<toolVars, envVars>>
  /\ render
  /\ UNCHANGED ghostVars
  /\ ev' = "scene:new"
  /\ UNCHANGED <<pureVars, coreVars>>

onLoadScene(scene) ==
  /\ activeScene' = scene
  /\ hasScene' = TRUE
  /\ sceneGen' = FreshGen
  /\ selectedObjects' = <<>>
  /\ zoom' = Num(1)
  /\ panOffset' = Pt(0, 0)
  /\ UNCHANGED <<hasCanvas, canvas, snapToGrid>>
  /\ UNCHANGED <<toolVars, envVars>>
  /\ render
  /\ UNCHANGED ghostVars
  /\ ev' = "scene:load"
  /\ UNCHANGED <<pureVars, coreVars>>

\* the object literal onAddObject builds from the descriptor
NewObject(objectData) ==
  Obj(IF objectData.hasId THEN objectData.id ELSE Id("object", now),
      objectData.type,
      OrDefault(objectData.x, Num(0)),
      OrDefault(objectData.y, Num(0)),
      OrDefault(objectData.width, Num(100)),
      OrDefault(objectData.height, Num(100)))

\* Inspector.onObjectSelection, handling events.emit('object:selection', ids)
onObjectSelection(selectedIds) == inspectorSelectedObjects' = selectedIds

\* layer.objects.push(object) on layer li
PushObject(scene, li, object) ==
  [scene EXCEPT !.layers[li].objects = Append(@, object)]

onAddObject(objectData) ==
  /\ hasScene
  /\ CountObjects(activeScene) < MaxObjects
  /\ IF ActiveLayerIndex(activeScene) = 0
     THEN UNCHANGED <<viewVars, sceneVars, inspectorSelectedObjects>>
     ELSE /\ activeScene' = PushObject(activeScene, ActiveLayerIndex(activeScene), NewObject(objectData))
          /\ selectedObjects' = << NewObject(objectData).id >>
          /\ UNCHANGED <<hasScene, sceneGen>>
          /\ UNCHANGED <<hasCanvas, canvas, snapToGrid, zoom, panOffset>>
          /\ render
          /\ onObjectSelection(selectedObjects')
  /\ UNCHANGED <<toolVars, appTileset, appSelectedTile, now>>
  /\ UNCHANGED ghostVars
  /\ ev' = "object:add"
  /\ UNCHANGED <<pureVars, coreVars>>

RemoveAt(s, i) == SubSeq(s, 1, i - 1) \o SubSeq(s, i + 1, Len(s))

\* the first layer holding the id loses its first object with that id
RemoveObject(scene, objectId) ==
  IF LayerOf(scene, objectId) = 0 THEN scene
  ELSE [scene EXCEPT !.layers[LayerOf(scene, objectId)].objects =
          RemoveAt(@, FindId(@, objectId))]

onRemoveObject(objectId) ==
  /\ hasScene
  /\ activeScene' = RemoveObject(activeScene, objectId)
  /\ selectedObjects' = SelectSeq(selectedObjects, LAMBDA id : id # objectId)
  /\ UNCHANGED <<hasScene, sceneGen>>
  /\ UNCHANGED <<hasCanvas, canvas, snapToGrid, zoom, panOffset>>
  /\ UNCHANGED <<toolVars, appTileset, appSelectedTile, now>>
  /\ render
  /\ onObjectSelection(selectedObjects')
  /\ UNCHANGED ghostVars
  /\ ev' = "object:remove"
  /\ UNCHANGED <<pureVars, coreVars>>

onSelectObject(objectId) ==
  /\ selectedObjects' = << objectId >>
  /\ UNCHANGED <<hasScene, activeScene, sceneGen>>
  /\ UNCHANGED <<hasCanvas, canvas, snapToGrid, zoom, panOffset>>
  /\ UNCHANGED <<toolVars, envVars>>
  /\ render
  /\ UNCHANGED ghostVars
  /\ ev' = "object:select"
  /\ UNCHANGED <<pureVars, coreVars>>

\* Object.assign(object, properties) for a one-field patch
AssignProperties(object, properties) ==
  CASE properties.field = "columns" -> [object EXCEPT !.columns = properties.value]
    [] properties.field = "rows" -> [object EXCEPT !.rows = properties.value]
    [] properties.field = "tileSize" -> [object EXCEPT !.tileSize = properties.value]
    [] properties.field = "x" -> [object EXCEPT !.x = properties.value]
    [] properties.field = "y" -> [object EXCEPT !.y = properties.value]
    [] properties.field = "width" -> [object EXCEPT !.width = properties.value]
    [] properties.field = "height" -> [object EXCEPT !.height = properties.value]
    [] properties.field = "rotation" -> [object EXCEPT !.rotation = properties.value]

\* layer li has an object with this id
HasObject(scene, li, id) ==
  /\ li # 0 /\ li <= Len(scene.layers)
  /\ FindId(scene.layers[li].objects, id) # 0

\* layer.objects.find(o => o.id === id)
ObjectIn(scene, li, id) == scene.layers[li].objects[FindId(scene.layers[li].objects, id)]

\* the scene with that object's fields changed to those of object
ReplaceIn(scene, li, id, object) ==
  [scene EXCEPT !.layers[li].objects[FindId(scene.layers[li].objects, id)] = object]

onObjectProperties(objectId, properties) ==
  /\ hasScene
  /\ activeScene' = IF HasObject(activeScene, LayerOf(activeScene, objectId), objectId)
                    THEN ReplaceIn(activeScene, LayerOf(activeScene, objectId), objectId,
                           AssignProperties(ObjectOf(activeScene, objectId), properties))
                    ELSE activeScene
  /\ UNCHANGED <<hasScene, sceneGen, selectedObjects>>
  /\ UNCHANGED <<hasCanvas, canvas, snapToGrid, zoom, panOffset>>
  /\ UNCHANGED <<toolVars, envVars>>
  /\ render
  /\ UNCHANGED ghostVars
  /\ ev' = "object:properties"
  /\ UNCHANGED <<pureVars, coreVars>>

(***************************************************************************)
(* Grid & snap utility, hit tester                                         *)
(***************************************************************************)
\* rounding down instead of to the nearest
snap_Floor(value, size) == jsMul(MathFloor(jsDiv(value, size)), size)

\* rounds value to the nearest multiple of size
snap(value, size) == jsMul(MathRound(jsDiv(value, size)), size)

\* snapping applies only while the snap toggle is on
snapToGridValue(value) == IF snapToGrid THEN snap(value, Num(gridSize)) ELSE value

\* the box taken as centred on (x, y)
InBox_Centred(object, px, py) ==
  /\ jsGe(jsMul(Num(2), jsSub(px, object.x)), jsNeg(object.width))
  /\ jsLe(jsMul(Num(2), jsSub(px, object.x)), object.width)
  /\ jsGe(jsMul(Num(2), jsSub(py, object.y)), jsNeg(object.height))
  /\ jsLe(jsMul(Num(2), jsSub(py, object.y)), object.height)

\* the point lies in the axis-aligned box [x, x+width] x [y, y+height]
InBox(object, px, py) ==
  /\ jsGe(px, object.x) /\ jsLe(px, jsAdd(object.x, object.width))
  /\ jsGe(py, object.y) /\ jsLe(py, jsAdd(object.y, object.height))

RECURSIVE HitInLayer(_, _, _, _)
HitInLayer(objects, k, px, py) ==
  IF k = 0 THEN 0
  ELSE IF InBox(objects[k], px, py) THEN k
  ELSE HitInLayer(objects, k - 1, px, py)

RECURSIVE HitFrom(_, _, _, _)
HitFrom(scene, li, px, py) ==
  IF li = 0 THEN [hit |-> FALSE, layer |-> 0, idx |-> 0]
  ELSE IF scene.layers[li].visible
          /\ HitInLayer(scene.layers[li].objects, Len(scene.layers[li].objects), px, py) # 0
       THEN [hit |-> TRUE, layer |-> li,
             idx |-> HitInLayer(scene.layers[li].objects, Len(scene.layers[li].objects), px, py)]
       ELSE HitFrom(scene, li - 1, px, py)

\* topmost object under the scene point: layers last to first, objects last
\* to first, hidden layers skipped
getObjectAtCoords(scene, px, py) == HitFrom(scene, Len(scene.layers), px, py)

HitObject(scene, h) == scene.layers[h.layer].objects[h.idx]

Includes(seq, id) == \E k \in 1..Len(seq) : seq[k] = id

\* selection after a tool's pointer-down on coords
SelectionAfterDown(coords) ==
  LET h == getObjectAtCoords(activeScene, coords.x, coords.y)
  IN  IF h.hit /\ ~Includes(selectedObjects, HitObject(activeScene, h).id)
      THEN << HitObject(activeScene, h).id >>
      ELSE selectedObjects

(***************************************************************************)
(* Pointer dispatch: the canvas listeners set the dragging flag and hand   *)
(* the event, in scene coordinates, to the handler of the active tool.     *)
(***************************************************************************)
onCanvasMouseDown(tool) ==
  /\ hasCanvas
  /\ activeTool = tool
  /\ isDragging' = TRUE
  /\ ev' = "down"
  /\ UNCHANGED <<pureVars, coreVars>>

onCanvasMouseMove(tool) ==
  /\ hasCanvas
  /\ activeTool = tool
  /\ isDragging' = isDragging
  /\ ev' = "move"
  /\ UNCHANGED <<pureVars, coreVars>>

onCanvasMouseUp(tool) ==
  /\ hasCanvas
  /\ activeTool = tool
  /\ isDragging' = FALSE
  /\ ev' = "up"
  /\ UNCHANGED <<pureVars, coreVars>>

\* a pointer-down that starts a drag uses up one of the model's drags
StartsDrag(coords) ==
  IF getObjectAtCoords(activeScene, coords.x, coords.y).hit
  THEN nDrags < MaxDrags /\ nDrags' = nDrags + 1
  ELSE nDrags' = nDrags

\* panning stays inside the model's window
PanBy(delta) == [x |-> jsAdd(panOffset.x, delta.x), y |-> jsAdd(panOffset.y, delta.y)]

InPanWindow(pan) ==
  /\ jsLe(Num(-MaxPan), pan.x) /\ jsLe(pan.x, Num(MaxPan))
  /\ jsLe(Num(-MaxPan), pan.y) /\ jsLe(pan.y, Num(MaxPan))

(***************************************************************************)
(* Select tool                                                             *)
(***************************************************************************)
handleSelectToolDown(coords) ==
  /\ onCanvasMouseDown("select")
  /\ LET h == getObjectAtCoords(activeScene, coords.x, coords.y)
     IN  IF h.hit
         THEN /\ selectedObjects' = << HitObject(activeScene, h).id >>
              /\ isPanning' = isPanning
         ELSE /\ selectedObjects' = selectedObjects
              /\ isPanning' = TRUE
  /\ UNCHANGED <<hasScene, activeScene, sceneGen>>
  /\ UNCHANGED <<hasCanvas, canvas, snapToGrid, zoom, panOffset>>
  /\ UNCHANGED <<activeTool, dragInfo, rotateInfo, scaleInfo, lastPlacedTile>>
  /\ UNCHANGED <<envVars, nDrags>>
  /\ paint' = NoPaint
  /\ render

handleSelectToolMove(coords, delta) ==
  /\ onCanvasMouseMove("select")
  /\ IF isPanning
     THEN InPanWindow(PanBy(delta)) /\ panOffset' = PanBy(delta)
     ELSE panOffset' = panOffset
  /\ UNCHANGED <<hasCanvas, canvas, snapToGrid, zoom>>
  /\ UNCHANGED <<sceneVars, envVars, nDrags>>
  /\ UNCHANGED <<isPanning, activeTool, dragInfo, rotateInfo, scaleInfo, lastPlacedTile>>
  /\ paint' = NoPaint
  /\ render

handleSelectToolUp(coords) ==
  /\ onCanvasMouseUp("select")
  /\ isPanning' = FALSE
  /\ UNCHANGED <<hasCanvas, canvas, snapToGrid, zoom, panOffset>>
  /\ UNCHANGED <<sceneVars, envVars, nDrags>>
  /\ UNCHANGED <<activeTool, dragInfo, rotateInfo, scaleInfo, lastPlacedTile>>
  /\ paint' = NoPaint
  /\ render

(***************************************************************************)
(* Move tool                                                               *)
(***************************************************************************)
NotNull(s) == SelectSeq(s, LAMBDA i : i.layer # 0)

\* per selected id, the start position of the object found by scanning layers
CaptureDrag(scene, gen, sel) ==
  NotNull([k \in 1..Len(sel) |->
    IF LayerOf(scene, sel[k]) = 0
    THEN [id |-> Id("", 0), gen |-> 0, layer |-> 0, startX |-> Num(0), startY |-> Num(0)]
    ELSE [id |-> sel[k], gen |-> gen, layer |-> LayerOf(scene, sel[k]),
          startX |-> ObjectOf(scene, sel[k]).x, startY |-> ObjectOf(scene, sel[k]).y]])

handleMoveToolDown(coords) ==
  /\ onCanvasMouseDown("move")
  /\ StartsDrag(coords)
  /\ selectedObjects' = SelectionAfterDown(coords)
  /\ dragInfo' = IF getObjectAtCoords(activeScene, coords.x, coords.y).hit
                 THEN [set |-> TRUE, objects |-> CaptureDrag(activeScene, sceneGen, selectedObjects')]
                 ELSE dragInfo
  /\ UNCHANGED <<hasScene, activeScene, sceneGen>>
  /\ UNCHANGED <<hasCanvas, canvas, snapToGrid, zoom, panOffset>>
  /\ UNCHANGED <<isPanning, activeTool, rotateInfo, scaleInfo, lastPlacedTile>>
  /\ UNCHANGED envVars
  /\ paint' = NoPaint
  /\ render

\* the zoom multiplied in instead of divided out
MovedTo_Scaled(start, d) == snapToGridValue(jsAdd(start, jsMul(d, zoom)))

\* snapToGridValue(objInfo.start + (delta / this.zoom))
MovedTo(start, d) == snapToGridValue(jsAdd(start, jsDiv(d, zoom)))

\* the loop over dragInfo.objects, from entry k on ; entries captured in
\* an earlier scene write to that scene's layers, not to the active one
RECURSIVE MoveObjects(_, _, _, _)
MoveObjects(scene, infos, k, delta) ==
  IF k > Len(infos) THEN scene
  ELSE MoveObjects(
         IF infos[k].gen # sceneGen \/ ~HasObject(scene, infos[k].layer, infos[k].id) THEN scene
         ELSE ReplaceIn(scene, infos[k].layer, infos[k].id,
                [ObjectIn(scene, infos[k].layer, infos[k].id) EXCEPT
                  !.x = MovedTo(infos[k].startX, delta.x),
                  !.y = MovedTo(infos[k].startY, delta.y)]),
         infos, k + 1, delta)

handleMoveToolMove(coords, delta) ==
  /\ onCanvasMouseMove("move")
  /\ IF dragInfo.set
     THEN /\ activeScene' = MoveObjects(activeScene, dragInfo.objects, 1, delta)
          /\ panOffset' = panOffset
     ELSE IF isPanning
          THEN /\ InPanWindow(PanBy(delta))
               /\ panOffset' = PanBy(delta)
               /\ activeScene' = activeScene
          ELSE UNCHANGED <<activeScene, panOffset>>
  /\ UNCHANGED <<hasScene, sceneGen, selectedObjects>>
  /\ UNCHANGED <<hasCanvas, canvas, snapToGrid, zoom>>
  /\ UNCHANGED <<isPanning, activeTool, dragInfo, rotateInfo, scaleInfo, lastPlacedTile>>
  /\ UNCHANGED <<envVars, nDrags>>
  /\ paint' = NoPaint
  /\ render

handleMoveToolUp(coords) ==
  /\ onCanvasMouseUp("move")
  /\ dragInfo' = NoInfo
  /\ isPanning' = FALSE
  /\ UNCHANGED <<hasCanvas, canvas, snapToGrid, zoom, panOffset>>
  /\ UNCHANGED <<sceneVars, envVars, nDrags>>
  /\ UNCHANGED <<activeTool, rotateInfo, scaleInfo, lastPlacedTile>>
  /\ paint' = NoPaint
  /\ render

(***************************************************************************)
(* Rotate tool.  Math.atan2(dy, dx) * 180 / Math.PI is computed to the     *)
(* nearest whole degree: TanTable[k] is 10000 * tan((k - 1/2) degrees).    *)
(***************************************************************************)
TanTable ==
  << 87, 262, 437, 612, 787, 963, 1139, 1317, 1495, 1673, 1853, 2035, 2217,
     2401, 2586, 2773, 2962, 3153, 3346, 3541, 3739, 3939, 4142, 4348,
     4557, 4770, 4986, 5206, 5430, 5658, 5890, 6128, 6371, 6619, 6873,
     7133, 7400, 7673, 7954, 8243, 8541, 8847, 9163, 9490, 9827 >>

RAbs(a) == [n |-> Abs(a.n), d |-> a.d]

\* arctangent in whole degrees of small / large, for 0 <= small <= large
AtanDeg(small, large) ==
  Cardinality({k \in 1..45 : jsLe(jsMul(Num(TanTable[k]), large), jsMul(Num(10000), small))})

\* angle in [0, 90] of the direction (|dx|, |dy|)
BaseAngle(ady, adx) ==
  IF ady.d = 0 /\ adx.d = 0 THEN 45
  ELSE IF ady.d = 0 THEN 90
  ELSE IF adx.d = 0 THEN 0
  ELSE IF ady.n = 0 THEN 0
  ELSE IF jsLe(ady, adx) THEN AtanDeg(ady, adx)
  ELSE 90 - AtanDeg(adx, ady)

Atan2Deg(dy, dx) ==
  IF IsNaN(dy) \/ IsNaN(dx) THEN NaN
  ELSE LET base == BaseAngle(RAbs(dy), RAbs(dx))
       IN  IF dx.n >= 0 THEN (IF dy.n >= 0 THEN Num(base) ELSE Num(-base))
           ELSE (IF dy.n >= 0 THEN Num(180 - base) ELSE Num(base - 180))

CaptureRotate(scene, gen, sel, coords) ==
  NotNull([k \in 1..Len(sel) |->
    IF LayerOf(scene, sel[k]) = 0
    THEN [id |-> Id("", 0), gen |-> 0, layer |-> 0, centerX |-> Num(0), centerY |-> Num(0),
          startRotation |-> Num(0), initialAngle |-> Num(0)]
    ELSE LET obj == ObjectOf(scene, sel[k])
             centerX == jsAdd(obj.x, jsDiv(obj.width, Num(2)))
             centerY == jsAdd(obj.y, jsDiv(obj.height, Num(2)))
         IN  [id |-> sel[k], gen |-> gen, layer |-> LayerOf(scene, sel[k]),
              centerX |-> centerX, centerY |-> centerY,
              startRotation |-> OrDefault(obj.rotation, Num(0)),
              initialAngle |-> Atan2Deg(jsSub(coords.y, centerY), jsSub(coords.x, centerX))]])

handleRotateToolDown(coords) ==
  /\ onCanvasMouseDown("rotate")
  /\ StartsDrag(coords)
  /\ selectedObjects' = SelectionAfterDown(coords)
  /\ rotateInfo' = IF getObjectAtCoords(activeScene, coords.x, coords.y).hit
                   THEN [set |-> TRUE,
                         objects |-> CaptureRotate(activeScene, sceneGen, selectedObjects', coords)]
                   ELSE rotateInfo
  /\ UNCHANGED <<hasScene, activeScene, sceneGen>>
  /\ UNCHANGED <<hasCanvas, canvas, snapToGrid, zoom, panOffset>>
  /\ UNCHANGED <<isPanning, activeTool, dragInfo, scaleInfo, lastPlacedTile>>
  /\ UNCHANGED envVars
  /\ paint' = NoPaint
  /\ render

\* rotation written by one pointer-move for one captured entry
NewRotation(info, coords) ==
  LET currentAngle == Atan2Deg(jsSub(coords.y, info.centerY), jsSub(coords.x, info.centerX))
      rotation == jsAdd(info.startRotation, jsSub(currentAngle, info.initialAngle))
  IN  IF snapToGrid THEN jsMul(MathRound(jsDiv(rotation, Num(15))), Num(15)) ELSE rotation

RECURSIVE RotateObjects(_, _, _, _)
RotateObjects(scene, infos, k, coords) ==
  IF k > Len(infos) THEN scene
  ELSE RotateObjects(
         IF infos[k].gen # sceneGen \/ ~HasObject(scene, infos[k].layer, infos[k].id) THEN scene
         ELSE ReplaceIn(scene, infos[k].layer, infos[k].id,
                [ObjectIn(scene, infos[k].layer, infos[k].id) EXCEPT
                  !.rotation = NewRotation(infos[k], coords)]),
         infos, k + 1, coords)

handleRotateToolMove(coords) ==
  /\ onCanvasMouseMove("rotate")
  /\ activeScene' = IF rotateInfo.set
                    THEN RotateObjects(activeScene, rotateInfo.objects, 1, coords)
                    ELSE activeScene
  /\ UNCHANGED <<hasScene, sceneGen, selectedObjects>>
  /\ UNCHANGED <<hasCanvas, canvas, snapToGrid, zoom, panOffset>>
  /\ UNCHANGED <<isPanning, activeTool, dragInfo, rotateInfo, scaleInfo, lastPlacedTile>>
  /\ UNCHANGED <<envVars, nDrags>>
  /\ paint' = NoPaint
  /\ render

\* the pointer-up that forgets to clear rotateInfo
handleRotateToolUp_KeepsInfo(coords) ==
  /\ onCanvasMouseUp("rotate")
  /\ rotateInfo' = rotateInfo
  /\ UNCHANGED <<hasCanvas, canvas, snapToGrid, zoom, panOffset>>
  /\ UNCHANGED <<sceneVars, envVars, nDrags>>
  /\ UNCHANGED <<isPanning, activeTool, dragInfo, scaleInfo, lastPlacedTile>>
  /\ paint' = NoPaint
  /\ render

handleRotateToolUp(coords) ==
  /\ onCanvasMouseUp("rotate")
  /\ rotateInfo' = NoInfo
  /\ UNCHANGED <<hasCanvas, canvas, snapToGrid, zoom, panOffset>>
  /\ UNCHANGED <<sceneVars, envVars, nDrags>>
  /\ UNCHANGED <<isPanning, activeTool, dragInfo, scaleInfo, lastPlacedTile>>
  /\ paint' = NoPaint
  /\ render

(***************************************************************************)
(* Scale tool                                                              *)
(***************************************************************************)
CaptureScale(scene, gen, sel, coords) ==
  NotNull([k \in 1..Len(sel) |->
    IF LayerOf(scene, sel[k]) = 0
    THEN [id |-> Id("", 0), gen |-> 0, layer |-> 0, startX |-> Num(0), startY |-> Num(0),
          startWidth |-> Num(0), startHeight |-> Num(0),
          startMouseX |-> Num(0), startMouseY |-> Num(0)]
    ELSE LET obj == ObjectOf(scene, sel[k])
         IN  [id |-> sel[k], gen |-> gen, layer |-> LayerOf(scene, sel[k]),
              startX |-> obj.x, startY |-> obj.y,
              startWidth |-> obj.width, startHeight |-> obj.height,
              startMouseX |-> coords.x, startMouseY |-> coords.y]])

handleScaleToolDown(coords) ==
  /\ onCanvasMouseDown("scale")
  /\ StartsDrag(coords)
  /\ selectedObjects' = SelectionAfterDown(coords)
  /\ scaleInfo' = IF getObjectAtCoords(activeScene, coords.x, coords.y).hit
                  THEN [set |-> TRUE,
                        objects |-> CaptureScale(activeScene, sceneGen, selectedObjects', coords)]
                  ELSE scaleInfo
  /\ UNCHANGED <<hasScene, activeScene, sceneGen>>
  /\ UNCHANGED <<hasCanvas, canvas, snapToGrid, zoom, panOffset>>
  /\ UNCHANGED <<isPanning, activeTool, dragInfo, rotateInfo, lastPlacedTile>>
  /\ UNCHANGED envVars
  /\ paint' = NoPaint
  /\ render

\* Math.max(10, start * scale), then snapped when the toggle is on
ScaledSize(start, scale) ==
  IF snapToGrid
  THEN snapToGridValue(MathMax(Num(10), jsMul(start, scale)))
  ELSE MathMax(Num(10), jsMul(start, scale))

ScaleObject(o, info, coords) ==
  LET scaleX == jsDiv(jsSub(coords.x, info.startX), jsSub(info.startMouseX, info.startX))
      scaleY == jsDiv(jsSub(coords.y, info.startY), jsSub(info.startMouseY, info.startY))
  IN  [o EXCEPT !.width = ScaledSize(info.startWidth, scaleX),
                !.height = ScaledSize(info.startHeight, scaleY)]

RECURSIVE ScaleObjects(_, _, _, _)
ScaleObjects(scene, infos, k, coords) ==
  IF k > Len(infos) THEN scene
  ELSE ScaleObjects(
         IF infos[k].gen # sceneGen \/ ~HasObject(scene, infos[k].layer, infos[k].id) THEN scene
         ELSE ReplaceIn(scene, infos[k].layer, infos[k].id,
                ScaleObject(ObjectIn(scene, infos[k].layer, infos[k].id), infos[k], coords)),
         infos, k + 1, coords)

handleScaleToolMove(coords) ==
  /\ onCanvasMouseMove("scale")
  /\ activeScene' = IF scaleInfo.set
                    THEN ScaleObjects(activeScene, scaleInfo.objects, 1, coords)
                    ELSE activeScene
  /\ UNCHANGED <<hasScene, sceneGen, selectedObjects>>
  /\ UNCHANGED <<hasCanvas, canvas, snapToGrid, zoom, panOffset>>
  /\ UNCHANGED <<isPanning, activeTool, dragInfo, rotateInfo, scaleInfo, lastPlacedTile>>
  /\ UNCHANGED <<envVars, nDrags>>
  /\ paint' = NoPaint
  /\ render

handleScaleToolUp(coords) ==
  /\ onCanvasMouseUp("scale")
  /\ scaleInfo' = NoInfo
  /\ UNCHANGED <<hasCanvas, canvas, snapToGrid, zoom, panOffset>>
  /\ UNCHANGED <<sceneVars, envVars, nDrags>>
  /\ UNCHANGED <<isPanning, activeTool, dragInfo, rotateInfo, lastPlacedTile>>
  /\ paint' = NoPaint
  /\ render

(***************************************************************************)
(* Tile tool                                                               *)
(***************************************************************************)
\* the tilemap created when the active layer has none: sized to the scene
NewTilemap(scene) ==
  LET columns == MathCeil(jsDiv(scene.width, Num(32)))
      rows == MathCeil(jsDiv(scene.height, Num(32)))
      cells == jsMul(rows, columns)
  IN  [Obj(Id("tilemap", now), "tilemap", Num(0), Num(0), scene.width, scene.height)
         EXCEPT !.tileSize = Num(32), !.columns = columns, !.rows = rows,
                !.tileData = Zeros(IF cells.d = 1 THEN cells.n ELSE 0)]

\* tile coordinates of a scene point
TileCell(tilemap, coords) ==
  [x |-> MathFloor(jsDiv(jsSub(coords.x, tilemap.x), tilemap.tileSize)),
   y |-> MathFloor(jsDiv(jsSub(coords.y, tilemap.y), tilemap.tileSize))]

\* the test that makes both handlers return
OutsideTilemap(tilemap, cell) ==
  \/ jsLt(cell.x, Num(0)) \/ jsGe(cell.x, tilemap.columns)
  \/ jsLt(cell.y, Num(0)) \/ jsGe(cell.y, tilemap.rows)

\* the index with column and row exchanged
TileIndex_Transposed(tilemap, cell) == jsAdd(jsMul(cell.x, tilemap.columns), cell.y)

\* tileY * tilemap.columns + tileX
TileIndex(tilemap, cell) == jsAdd(jsMul(cell.y, tilemap.columns), cell.x)

\* this.app.selectedTile || 1
TileToPlace == IF appSelectedTile = 0 THEN 1 ELSE appSelectedTile

\* tilemap.tileData[tileIndex] = tile, on the tilemap at index ti of layer li
WriteTile(scene, li, ti, cell) ==
  [scene EXCEPT !.layers[li].objects[ti].tileData =
     ArraySet(@, TileIndex(scene.layers[li].objects[ti], cell), TileToPlace)]

\* the comparison of the row written with !== instead of ===
SameTile_RowDiffers(last, cell) ==
  last.set /\ last.x = cell.x /\ last.y # cell.y /\ ~IsNaN(cell.x) /\ ~IsNaN(cell.y)

\* lastPlacedTile && lastPlacedTile.x === tileX && lastPlacedTile.y === tileY
SameTile(last, cell) == last.set /\ last.x = cell.x /\ last.y = cell.y /\ ~IsNaN(cell.x) /\ ~IsNaN(cell.y)

\* the scene after the find-or-create step of handleTileToolDown
WithTilemap(scene, li) ==
  IF FindTilemap(scene.layers[li].objects) = 0
  THEN PushObject(scene, li, NewTilemap(scene))
  ELSE scene

handleTileToolDown(coords) ==
  LET li == ActiveLayerIndex(activeScene)
      scene == WithTilemap(activeScene, li)
      ti == FindTilemap(scene.layers[li].objects)
      tilemap == scene.layers[li].objects[ti]
      cell == TileCell(tilemap, coords)
  IN  /\ UNCHANGED <<hasScene, sceneGen, selectedObjects>>
      /\ UNCHANGED <<hasCanvas, canvas, snapToGrid, zoom, panOffset>>
      /\ UNCHANGED <<isPanning, activeTool, dragInfo, rotateInfo, scaleInfo>>
      /\ UNCHANGED <<envVars, nDrags>>
      /\ IF ~appTileset \/ li = 0
         THEN /\ onCanvasMouseDown("tile")
              /\ UNCHANGED <<activeScene, lastPlacedTile, frame>>
              /\ paint' = NoPaint
         ELSE IF OutsideTilemap(tilemap, cell)
         THEN /\ onCanvasMouseDown("tile")
              /\ activeScene' = scene
              /\ UNCHANGED <<lastPlacedTile, frame>>
              /\ paint' = NoPaint
         ELSE /\ onCanvasMouseDown("tile")
              /\ activeScene' = WriteTile(scene, li, ti, cell)
              /\ lastPlacedTile' = [set |-> TRUE, x |-> cell.x, y |-> cell.y]
              /\ paint' = IF IsFinite(cell.x) /\ IsFinite(cell.y)
                          THEN [inCell |-> TRUE, x |-> cell.x, y |-> cell.y, writes |-> 1, stayed |-> FALSE]
                          ELSE NoPaint
              /\ render

\* the stroke after a pointer-move over a cell, having written or not
PaintAfterMove(cell, wrote) ==
  IF ~IsFinite(cell.x) \/ ~IsFinite(cell.y) THEN NoPaint
  ELSE IF paint.inCell /\ paint.x = cell.x /\ paint.y = cell.y
       THEN [paint EXCEPT !.writes = @ + (IF wrote THEN 1 ELSE 0), !.stayed = TRUE]
       ELSE [inCell |-> TRUE, x |-> cell.x, y |-> cell.y,
             writes |-> IF wrote THEN 1 ELSE 0, stayed |-> FALSE]

handleTileToolMove(coords) ==
  LET li == ActiveLayerIndex(activeScene)
      ti == FindTilemap(activeScene.layers[li].objects)
      tilemap == activeScene.layers[li].objects[ti]
      cell == TileCell(tilemap, coords)
  IN  /\ UNCHANGED <<hasScene, sceneGen, selectedObjects>>
      /\ UNCHANGED <<hasCanvas, canvas, snapToGrid, zoom, panOffset>>
      /\ UNCHANGED <<isPanning, activeTool, dragInfo, rotateInfo, scaleInfo>>
      /\ UNCHANGED <<envVars, nDrags>>
      /\ IF ~isDragging \/ li = 0 \/ ti = 0 \/ OutsideTilemap(tilemap, cell)
         THEN /\ onCanvasMouseMove("tile")
              /\ UNCHANGED <<activeScene, lastPlacedTile, frame>>
              /\ paint' = NoPaint
         ELSE IF SameTile(lastPlacedTile, cell)
         THEN /\ onCanvasMouseMove("tile")
              /\ UNCHANGED <<activeScene, lastPlacedTile, frame>>
              /\ paint' = PaintAfterMove(cell, FALSE)
         ELSE /\ onCanvasMouseMove("tile")
              /\ activeScene' = WriteTile(activeScene, li, ti, cell)
              /\ lastPlacedTile' = [set |-> TRUE, x |-> cell.x, y |-> cell.y]
              /\ paint' = PaintAfterMove(cell, TRUE)
              /\ render

handleTileToolUp(coords) ==
  /\ onCanvasMouseUp("tile")
  /\ lastPlacedTile' = NoTile
  /\ paint' = NoPaint
  /\ UNCHANGED <<hasCanvas, canvas, snapToGrid, zoom, panOffset>>
  /\ UNCHANGED <<sceneVars, envVars, nDrags>>
  /\ UNCHANGED <<isPanning, activeTool, dragInfo, rotateInfo, scaleInfo>>
  /\ render

(***************************************************************************)
(* The editor under the scale tool                                         *)
(***************************************************************************)
\* pointer positions: a miss, the top-left corner of "low" and "a", their centre
ScalePoints == {Pt(10, 10), Pt(100, 100), Pt(125, 125)}

NextScale ==
  \/ initUI(DefaultPanel)
  \/ \E toolId \in {"move", "scale"} : setActiveTool(toolId)
  \/ SnapClick
  \/ onNewScene(DefaultConfig)
  \/ onLoadScene(OverlapScene)
  \/ \E d \in AddInputs : onAddObject(d)
  \/ \E c \in ScalePoints : handleScaleToolDown(c)
  \/ \E c \in ScalePoints : handleScaleToolMove(c)
  \/ \E c \in ScalePoints : handleScaleToolUp(c)

SpecScale == Init /\ [][NextScale]_vars

\* the in-flight state of the four tools is empty
NoDragState ==
  /\ dragInfo = NoInfo
  /\ rotateInfo = NoInfo
  /\ scaleInfo = NoInfo
  /\ lastPlacedTile = NoTile

\* C1: a tool switch (setActiveTool) or a scene switch (scene:new, scene:load)
\* made while a drag is in progress leaves the move drag info, the rotate info,
\* the scale info and the last-painted tile cell all empty.
C1_SwitchDiscardsDragState ==
  [][(isDragging /\ ev' \in {"setActiveTool", "scene:new", "scene:load"}) => NoDragState']_vars

\* the objects of the live scene that the scale drag in progress has captured
ScaledObjects ==
  { scaleInfo.objects[k].id : k \in { j \in 1..Len(scaleInfo.objects) : scaleInfo.objects[j].gen = sceneGen } }

\* C2: after a pointer-move of a scale drag, with snap-to-grid on or off, every
\* object the drag scales has width >= 10 and height >= 10.
C2_ScaleFloor ==
  (ev = "move" /\ activeTool = "scale" /\ scaleInfo.set) =>
    \A id \in ScaledObjects :
      LayerOf(activeScene, id) # 0 =>
        /\ jsGe(ObjectOf(activeScene, id).width, Num(10))
        /\ jsGe(ObjectOf(activeScene, id).height, Num(10))

(***************************************************************************)
(* The editor under the move tool, under the rotate tool                   *)
(***************************************************************************)
NextMove ==
  \/ initUI(DefaultPanel)
  \/ \E toolId \in {"select", "move"} : setActiveTool(toolId)
  \/ SnapClick
  \/ setZoom(Num(2))
  \/ onLoadScene(MoveScene)
  \/ \E c \in ScalePoints : handleMoveToolDown(c)
  \/ \E c \in ScalePoints, d \in Deltas : handleMoveToolMove(c, d)
  \/ \E c \in ScalePoints : handleMoveToolUp(c)

SpecMove == Init /\ [][NextMove]_vars

NextRotate ==
  \/ initUI(DefaultPanel)
  \/ \E toolId \in {"select", "rotate"} : setActiveTool(toolId)
  \/ SnapClick
  \/ onNewScene(DefaultConfig)
  \/ onLoadScene(OverlapScene)
  \/ \E d \in AddInputs : onAddObject(d)
  \/ \E c \in ScalePoints : handleRotateToolDown(c)
  \/ \E c \in ScalePoints : handleRotateToolMove(c)
  \/ \E c \in ScalePoints : handleRotateToolUp(c)

SpecRotate == Init /\ [][NextRotate]_vars

(***************************************************************************)
(* The inbound requests without the tools                                  *)
(***************************************************************************)
NextObjects ==
  \/ initUI(DefaultPanel)
  \/ onNewScene(DefaultConfig)
  \/ \E sc \in {OverlapScene, EmptyScene} : onLoadScene(sc)
  \/ \E d \in AddInputs : onAddObject(d)
  \/ \E id \in KnownIds : onRemoveObject(id)
  \/ \E id \in KnownIds : onSelectObject(id)
  \/ \E id \in KnownIds : onObjectProperties(id, [field |-> "width", value |-> Num(5)])

SpecObjects == Init /\ [][NextObjects]_vars

(***************************************************************************)
(* The editor under the tile tool                                          *)
(***************************************************************************)
\* outside every tilemap, two points of cell (0,0), one point of cell (1,1)
TilePoints == {Pt(-5, -5), Pt(10, 10), Pt(20, 20), Pt(40, 40)}

NextTile ==
  \/ initUI(DefaultPanel)
  \/ setActiveTool("tile")
  \/ \E tile \in {0, 2} : SelectTile(TRUE, tile)
  \/ onNewScene(SmallConfig)
  \/ \E sc \in {TilemapScene, EmptyScene} : onLoadScene(sc)
  \/ \E id \in KnownIds, pch \in TilemapPatches : onObjectProperties(id, pch)
  \/ \E c \in TilePoints : handleTileToolDown(c)
  \/ \E c \in TilePoints : handleTileToolMove(c)
  \/ \E c \in TilePoints : handleTileToolUp(c)

SpecTile == Init /\ [][NextTile]_vars

\* the tilemap objects of the active scene
Tilemaps ==
  { activeScene.layers[li].objects[k] :
      <<li, k>> \in { lk \in (1..Len(activeScene.layers)) \X (1..2) :
                       /\ lk[2] <= Len(activeScene.layers[lk[1]].objects)
                       /\ activeScene.layers[lk[1]].objects[lk[2]].type = "tilemap" } }

\* C3: every tilemap object of the active scene has tileData.length equal to
\* columns * rows, also after an object:properties patch of columns or rows.
C3_TileDataLength ==
  \A t \in Tilemaps : Num(Len(t.tileData)) = jsMul(t.columns, t.rows)

\* C4: within one paint drag a run of pointer positions in one tile cell
\* writes that cell at most once.
C4_PaintDedup == paint.writes <= 1

\* a pointer-move that stayed in the cell painted last and wrote nothing
C4_StayedInCell ==
  /\ ev = "move" /\ activeTool = "tile" /\ isDragging
  /\ paint.inCell /\ paint.stayed /\ paint.writes = 1
  /\ lastPlacedTile.set /\ lastPlacedTile.x = paint.x /\ lastPlacedTile.y = paint.y

(***************************************************************************)
(* The view: panel size, zoom, pan                                         *)
(***************************************************************************)
\* a miss, which starts panning, and a hit on "low"
ViewPoints == {Pt(10, 10), Pt(125, 125)}

NextView ==
  \/ \E size \in PanelSizes : initUI(size)
  \/ \E size \in PanelSizes : onResize(size)
  \/ \E z \in ZoomArgs : setZoom(z)
  \/ ZoomInClick
  \/ ZoomOutClick
  \/ \E c \in SceneConfigs : onNewScene(c)
  \/ onLoadScene(OverlapScene)
  \/ \E c \in ViewPoints : handleSelectToolDown(c)
  \/ \E c \in ViewPoints, d \in Deltas : handleSelectToolMove(c, d)
  \/ \E c \in ViewPoints : handleSelectToolUp(c)

SpecView == Init /\ [][NextView]_vars

C8_RoundTrip ==
  frame.drawn =>
    \A k \in 1..Len(frame.at) :
      LET object == ObjectOf(activeScene, frame.order[k])
      IN  /\ ScreenToScene(frame.at[k].x, frame.sceneX, zoom) = object.x
          /\ ScreenToScene(frame.at[k].y, frame.sceneY, zoom) = object.y

\* objects drawn zoomed and panned
C8_ZoomedAndPanned ==
  /\ frame.drawn /\ Len(frame.at) > 0
  /\ zoom # Num(1) /\ panOffset.x # Num(0)

\* C9: the frame drawn last has the scene's top-left corner at
\* ((cw - sceneWidth * z) / 2 + px, (ch - sceneHeight * z) / 2 + py); an
\* 800x600 scene on an 800x600 surface at zoom 1 and pan (0,0) has it at (0,0).
C9_SceneOrigin ==
  frame.drawn =>
    /\ jsAdd(jsMul(Num(2), jsSub(frame.sceneX, panOffset.x)), jsMul(activeScene.width, zoom)) = canvas.width
    /\ jsAdd(jsMul(Num(2), jsSub(frame.sceneY, panOffset.y)), jsMul(activeScene.height, zoom)) = canvas.height
    /\ (/\ canvas = DefaultPanel /\ activeScene.width = Num(800) /\ activeScene.height = Num(600)
        /\ zoom = Num(1) /\ panOffset = Pt(0, 0))
       => (frame.sceneX = Num(0) /\ frame.sceneY = Num(0))

\* a frame of a scene that does not fill the surface, zoomed and panned
C9_OffCentre ==
  /\ frame.drawn /\ canvas = DefaultPanel /\ activeScene.width = Num(96)
  /\ zoom = Num(2) /\ panOffset = Pt(32, 32)
  /\ frame.sceneX = Num(336) /\ frame.sceneY = Num(268)

(***************************************************************************)
(* snap(value, gridSize) on its own                                        *)
(***************************************************************************)
SnapValues == {Norm(n, d) : n \in (-MaxSnap)..MaxSnap, d \in {1, 2, 3}}

GridSizes == {Num(1), Num(2), Num(gridSize), Norm(1, 2), Norm(3, 2)}

InitSnap ==
  /\ Constructed
  /\ arg \in {<<v, g>> : v \in SnapValues, g \in GridSizes}
  /\ result = <<>>

\* snap applied to the value, then to its own result
ApplySnap ==
  /\ Len(result) < 2
  /\ result' = Append(result, snap(IF result = <<>> THEN arg[1] ELSE result[Len(result)], arg[2]))
  /\ ev' = "snap"
  /\ UNCHANGED <<viewVars, sceneVars, toolVars, envVars, ghostVars, arg, coreVars>>

NextSnap == ApplySnap

SpecSnap == InitSnap /\ [][NextSnap]_vars

\* C10: snap(v, g) is a multiple of g, no multiple of g is nearer to v, and
\* snapping the result again returns it unchanged, for g > 0.
C10_SnapNearestIdempotent ==
  Len(result) >= 1 =>
    /\ jsDiv(result[1], arg[2]).d = 1
    /\ jsLe(jsMul(Num(2), RAbs(jsSub(arg[1], result[1]))), arg[2])
    /\ Len(result) = 2 => result[2] = result[1]

\* a value half-way between two multiples, snapped twice
C10_HalfWay ==
  /\ arg = <<Num(48), Num(gridSize)>>
  /\ result = <<Num(64), Num(64)>>

(***************************************************************************)
(* The hit tester on its own                                               *)
(***************************************************************************)
Rect(name, x, y) == Obj(Id(name, 0), "rectangle", Num(x), Num(y), Num(50), Num(50))

Low == Rect("low", 100, 100)

Mid == Rect("mid", 120, 120)

Top == Rect("top", 110, 110)

TwoLayers(v1, objects1, v2, objects2) ==
  [width |-> Num(800), height |-> Num(600), activeLayer |-> "layer_1",
   layers |-> << [id |-> "layer_1", visible |-> v1, objects |-> objects1],
                 [id |-> "layer_2", visible |-> v2, objects |-> objects2] >>]

HitScenes ==
  { TwoLayers(v1, o1, v2, o2) :
      v1 \in BOOLEAN, v2 \in BOOLEAN,
      o1 \in {<<Low, Mid>>, <<Mid, Low>>, <<Low>>, <<>>},
      o2 \in {<<Top>>, <<[Top EXCEPT !.rotation = Num(45)]>>, <<Rect("far", 300, 300)>>, <<>>} }

HitPoints ==
  {Pt(10, 10), Pt(100, 100), Pt(105, 105), Pt(115, 115), Pt(125, 125),
   Pt(150, 150), Pt(165, 165), Pt(170, 170), Pt(320, 320)}

InitHit ==
  /\ Constructed
  /\ arg \in {[scene |-> sc, x |-> c.x, y |-> c.y] : sc \in HitScenes, c \in HitPoints}
  /\ result = <<>>

ApplyHit ==
  /\ result = <<>>
  /\ result' = <<getObjectAtCoords(arg.scene, arg.x, arg.y)>>
  /\ ev' = "hitTest"
  /\ UNCHANGED <<viewVars, sceneVars, toolVars, envVars, ghostVars, arg, coreVars>>

NextHit == ApplyHit

SpecHit == InitHit /\ [][NextHit]_vars

\* positions in the drawing order of the objects whose box holds the point
DrawnUnder ==
  { k \in 1..Len(renderLayers(arg.scene)) :
      LET object == arg.scene.layers[renderLayers(arg.scene)[k].layer].objects[renderLayers(arg.scene)[k].idx]
      IN  /\ jsLe(object.x, arg.x) /\ jsLe(arg.x, jsAdd(object.x, object.width))
          /\ jsLe(object.y, arg.y) /\ jsLe(arg.y, jsAdd(object.y, object.height)) }

\* C5: the hit test returns the object drawn last among the drawn objects
\* under the point (layers in render order, objects in array order, hidden
\* layers not drawn), and none when no drawn object is under the point.
C5_HitIsTopmost ==
  result # <<>> =>
    IF DrawnUnder = {} THEN ~result[1].hit
    ELSE /\ result[1].hit
         /\ \A k \in DrawnUnder :
              (\A j \in DrawnUnder : j <= k) =>
                /\ renderLayers(arg.scene)[k].layer = result[1].layer
                /\ renderLayers(arg.scene)[k].idx = result[1].idx

\* three objects under the point, the upper layer hidden: "mid" is returned
C5_HiddenLayerSkipped ==
  /\ result # <<>>
  /\ arg = [scene |-> TwoLayers(TRUE, <<Low, Mid>>, FALSE, <<Top>>), x |-> Num(125), y |-> Num(125)]
  /\ result[1].hit /\ HitObject(arg.scene, result[1]).id = Id("mid", 0)

\* the objects of the scene
AllObjects(scene) ==
  UNION { {scene.layers[li].objects[k] : k \in 1..Len(scene.layers[li].objects)} :
            li \in 1..Len(scene.layers) }

\* the point minus the object's corner lies in [0, width] x [0, height]
Boxed(object, px, py) ==
  /\ jsLe(Num(0), jsSub(px, object.x)) /\ jsLe(jsSub(px, object.x), object.width)
  /\ jsLe(Num(0), jsSub(py, object.y)) /\ jsLe(jsSub(py, object.y), object.height)

\* C6: the hit test returns an object only if the point lies in its box
\* [x, x+width] x [y, y+height], rotation ignored, and none when no box holds
\* the point; a lone 50x50 rectangle at (100,100) is hit at (125,125) and
\* nothing is hit at (10,10).
C6_HitInsideBox ==
  result # <<>> =>
    /\ result[1].hit => Boxed(HitObject(arg.scene, result[1]), arg.x, arg.y)
    /\ (\A o \in AllObjects(arg.scene) : ~Boxed(o, arg.x, arg.y)) => ~result[1].hit
    /\ (arg.scene = TwoLayers(TRUE, <<Low>>, TRUE, <<>>) /\ arg.x = Num(125) /\ arg.y = Num(125))
         => (result[1].hit /\ HitObject(arg.scene, result[1]).id = Id("low", 0))
    /\ (arg.scene = TwoLayers(TRUE, <<Low>>, TRUE, <<>>) /\ arg.x = Num(10) /\ arg.y = Num(10))
         => ~result[1].hit

\* the lone rectangle at (100,100) hit at (125,125)
C6_ScenarioB ==
  /\ result # <<>>
  /\ arg = [scene |-> TwoLayers(TRUE, <<Low>>, TRUE, <<>>), x |-> Num(125), y |-> Num(125)]
  /\ result[1].hit

(***************************************************************************)
(* The drags of the move, rotate and scale tools                           *)
(***************************************************************************)
\* the entries of a drag record whose object is still in the live scene
LiveEntries(info) ==
  { k \in 1..Len(info.objects) :
      /\ info.objects[k].gen = sceneGen
      /\ HasObject(activeScene, info.objects[k].layer, info.objects[k].id) }

\* the object entry k of a drag record writes to
Dragged(info, k) == ObjectIn(activeScene, info.objects[k].layer, info.objects[k].id)

\* a finite whole multiple of step
IsMultiple(v, step) == IsFinite(v) /\ jsDiv(v, Num(step)).d = 1

\* size Math.max(10, start * (pointer - corner) / (startPointer - corner))
RawSize(start, pointer, corner, startPointer) ==
  MathMax(Num(10), jsMul(start, jsDiv(jsSub(pointer, corner), jsSub(startPointer, corner))))

\* C11: after a pointer-move of a move, rotate or scale drag, with the snap
\* toggle on the positions and sizes written are multiples of the grid size
\* and the rotations multiples of 15 degrees; with the toggle off the value
\* written is the computed one, unquantized.
C11_SnapOnlyWhenEnabled ==
  ev = "move" =>
    /\ (activeTool = "move" /\ dragInfo.set) =>
         \A k \in LiveEntries(dragInfo) :
           IF snapToGrid
           THEN /\ IsMultiple(Dragged(dragInfo, k).x, gridSize)
                /\ IsMultiple(Dragged(dragInfo, k).y, gridSize)
           ELSE \E d \in Deltas :
                  /\ jsMul(jsSub(Dragged(dragInfo, k).x, dragInfo.objects[k].startX), zoom) = d.x
                  /\ jsMul(jsSub(Dragged(dragInfo, k).y, dragInfo.objects[k].startY), zoom) = d.y
    /\ (activeTool = "rotate" /\ rotateInfo.set) =>
         \A k \in LiveEntries(rotateInfo) :
           IF snapToGrid
           THEN IsMultiple(Dragged(rotateInfo, k).rotation, 15)
           ELSE \E c \in ScalePoints :
                  jsAdd(jsSub(Dragged(rotateInfo, k).rotation, rotateInfo.objects[k].startRotation),
                        rotateInfo.objects[k].initialAngle)
                    = Atan2Deg(jsSub(c.y, rotateInfo.objects[k].centerY),
                               jsSub(c.x, rotateInfo.objects[k].centerX))
    /\ (activeTool = "scale" /\ scaleInfo.set) =>
         \A k \in LiveEntries(scaleInfo) :
           IF snapToGrid
           THEN /\ IsMultiple(Dragged(scaleInfo, k).width, gridSize)
                /\ IsMultiple(Dragged(scaleInfo, k).height, gridSize)
           ELSE \E c \in ScalePoints :
                  /\ Dragged(scaleInfo, k).width =
                       RawSize(scaleInfo.objects[k].startWidth, c.x,
                               scaleInfo.objects[k].startX, scaleInfo.objects[k].startMouseX)
                  /\ Dragged(scaleInfo, k).height =
                       RawSize(scaleInfo.objects[k].startHeight, c.y,
                               scaleInfo.objects[k].startY, scaleInfo.objects[k].startMouseY)

\* the components of a position agree with start + delta / zoom: exactly
\* with the snap toggle off, to the nearest grid line with it on
Lands(pos, start, d) ==
  IF snapToGrid
  THEN /\ IsMultiple(pos, gridSize)
       /\ jsLe(jsMul(Num(2), RAbs(jsSub(jsMul(jsSub(pos, start), zoom), d))), jsMul(Num(gridSize), zoom))
  ELSE jsMul(jsSub(pos, start), zoom) = d

\* C12: a pointer-move of a move drag by screen delta d puts every dragged
\* object at its pointer-down position plus d / zoom, snapped to the grid
\* when snap is on; from (0,0) with d = (32,32), zoom 2 and snap on the
\* object lands at (32,32).
C12_MoveDrag ==
  [][\A d \in Deltas :
       ((\E c \in ScalePoints : handleMoveToolMove(c, d)) /\ dragInfo.set) =>
         \A k \in LiveEntries(dragInfo) :
           /\ Lands(Dragged(dragInfo, k).x', dragInfo.objects[k].startX, d.x)
           /\ Lands(Dragged(dragInfo, k).y', dragInfo.objects[k].startY, d.y)
           /\ (/\ d = Pt(32, 32) /\ zoom = Num(2) /\ snapToGrid
               /\ dragInfo.objects[k].startX = Num(0) /\ dragInfo.objects[k].startY = Num(0))
              => (Dragged(dragInfo, k).x' = Num(32) /\ Dragged(dragInfo, k).y' = Num(32))]_vars

\* an object dragged from (0,0) at zoom 2 with snap on, now at (32,32)
C12_ScenarioC ==
  /\ ev = "move" /\ activeTool = "move" /\ dragInfo.set
  /\ zoom = Num(2) /\ snapToGrid
  /\ \E k \in LiveEntries(dragInfo) :
       /\ dragInfo.objects[k].startX = Num(0) /\ dragInfo.objects[k].startY = Num(0)
       /\ Dragged(dragInfo, k).x = Num(32) /\ Dragged(dragInfo, k).y = Num(32)

(***************************************************************************)
(* Painting on a tilemap of 10 x 10 tiles                                  *)
(***************************************************************************)
\* a point of cell (1,2), a point of cell (0,0), a point off the map
PaintPoints == {Pt(35, 67), Pt(10, 10), Pt(325, 10)}

NextPaint ==
  \/ initUI(DefaultPanel)
  \/ setActiveTool("tile")
  \/ \E tile \in {0, 2} : SelectTile(TRUE, tile)
  \/ onNewScene(PaintConfig)
  \/ \E id \in KnownIds : onObjectProperties(id, [field |-> "x", value |-> Num(32)])
  \/ \E c \in PaintPoints : handleTileToolDown(c)
  \/ \E c \in PaintPoints : handleTileToolMove(c)
  \/ \E c \in PaintPoints : handleTileToolUp(c)

SpecPaint == Init /\ [][NextPaint]_vars

\* a pointer event of the tile tool at c
TileStep(c) ==
  \/ ev' = "down" /\ handleTileToolDown(c)
  \/ ev' = "move" /\ handleTileToolMove(c)

\* the tilemap of the active layer, when the scene has both
HasTilemap ==
  /\ hasScene /\ ActiveLayerIndex(activeScene) # 0
  /\ FindTilemap(activeScene.layers[ActiveLayerIndex(activeScene)].objects) # 0

TheTilemap ==
  activeScene.layers[ActiveLayerIndex(activeScene)].objects[
    FindTilemap(activeScene.layers[ActiveLayerIndex(activeScene)].objects)]

\* column and row of scene point c on tilemap t, as whole numbers
ColOf(t, c) == (c.x.n * t.x.d - t.x.n * c.x.d) \div (c.x.d * t.x.d * t.tileSize.n)

RowOf(t, c) == (c.y.n * t.y.d - t.y.n * c.y.d) \div (c.y.d * t.y.d * t.tileSize.n)

InBounds(t, c) ==
  /\ 0 <= ColOf(t, c) /\ ColOf(t, c) < t.columns.n
  /\ 0 <= RowOf(t, c) /\ RowOf(t, c) < t.rows.n

\* position in the TLA+ sequence of cell (col, row)
CellOf(t, c) == RowOf(t, c) * t.columns.n + ColOf(t, c) + 1

\* the tile the tool places
Selected == IF appSelectedTile = 0 THEN 1 ELSE appSelectedTile

\* the tile data before a pointer event; a tilemap made by the event starts
\* with every cell 0
DataBefore(len) == IF HasTilemap THEN TheTilemap.tileData ELSE [k \in 1..len |-> 0]

\* a pointer event at c that the tile tool paints on: pointer-down with a
\* tileset and an active layer, or pointer-move of a stroke onto another cell
Paints(c) ==
  \/ ev' = "down" /\ appTileset /\ ActiveLayerIndex(activeScene) # 0
  \/ /\ ev' = "move" /\ isDragging /\ HasTilemap
     /\ ~(/\ lastPlacedTile.set
          /\ lastPlacedTile.x = Num(ColOf(TheTilemap, c))
          /\ lastPlacedTile.y = Num(RowOf(TheTilemap, c)))

\* data with position k replaced by tile, the other positions kept
OnlyAt(data, k, tile) == [i \in 1..Len(data) |-> IF i = k THEN tile ELSE data[i]]

\* C13: painting at (px, py) on the tilemap at (x, y) with tile size s and c
\* columns targets column floor((px - x) / s) and row floor((py - y) / s);
\* when that cell is in bounds the event writes the selected tile index at
\* tileData[row * c + column] and changes no other element; on a tilemap of
\* 10 x 10 tiles of 32 at the origin the point (35, 67) writes index 21.
C13_PaintCell ==
  [][\A c \in PaintPoints :
       (ev' \in {"down", "move"} /\ HasTilemap' /\ TileStep(c)) =>
         \A t \in {TheTilemap'} :
         \A before \in {DataBefore(Len(t.tileData))} :
         \A cell \in {CellOf(t, c)} :
         \A after \in {OnlyAt(before, cell, Selected)} :
           /\ \/ t.tileData = before
              \/ InBounds(t, c) /\ t.tileData = after
           /\ (InBounds(t, c) /\ Paints(c)) =>
                /\ t.tileData = after
                /\ lastPlacedTile' = [set |-> TRUE, x |-> Num(ColOf(t, c)),
                                                    y |-> Num(RowOf(t, c))]
                /\ (/\ c = Pt(35, 67) /\ t.x = Num(0) /\ t.y = Num(0)
                    /\ t.columns = Num(10) /\ t.rows = Num(10)
                    /\ t.tileSize = Num(32))
                   => t.tileData[22] = Selected
  ]_vars

\* Scenario D has happened: tile 2 painted at index 21 and nowhere else
C13_ScenarioD ==
  /\ ev = "down" /\ activeTool = "tile" /\ HasTilemap /\ appSelectedTile = 2
  /\ TheTilemap.x = Num(0) /\ TheTilemap.columns = Num(10) /\ TheTilemap.rows = Num(10)
  /\ lastPlacedTile = [set |-> TRUE, x |-> Num(1), y |-> Num(2)]
  /\ \A k \in 1..100 : TheTilemap.tileData[k] = (IF k = 22 THEN 2 ELSE 0)

\* C14: a tile pointer-down or pointer-move whose cell is outside the bounds
\* of the tilemap is a no-op: the scene (all layers, their object lists and
\* every tileData) is unchanged.
C14_OutsideNoOp ==
  [][\A c \in PaintPoints :
       (/\ ev' \in {"down", "move"} /\ HasTilemap' /\ ~InBounds(TheTilemap', c)
        /\ TileStep(c))
       => activeScene' = activeScene
  ]_vars

(***************************************************************************)
(* The objects of the scene                                                *)
(***************************************************************************)
\* C15: object ids are unique within the active scene and every object is in
\* exactly one layer: the scene holds as many distinct ids as objects.
C15_UniqueIds ==
  hasScene => Cardinality(IdsFrom(activeScene, 1)) = CountObjects(activeScene)

\* the objects of layer li that do not carry the id, in their order
Others(scene, li, id) == SelectSeq(scene.layers[li].objects, LAMBDA o : o.id # id)

\* C16: after object:remove(id) no layer contains an object with that id
\* and the id is not in the selection; every other object, the order of the
\* objects and the other selected ids are unchanged.
C16_RemoveObject ==
  [][\A id \in KnownIds :
       (ev' = "object:remove" /\ onRemoveObject(id)) =>
         /\ id \notin IdsFrom(activeScene', 1)
         /\ \A k \in 1..Len(selectedObjects') : selectedObjects'[k] # id
         /\ selectedObjects' = SelectSeq(selectedObjects, LAMBDA other : other # id)
         /\ Len(activeScene.layers') = Len(activeScene.layers)
         /\ \A li \in 1..Len(activeScene.layers) :
              activeScene.layers'[li].objects = Others(activeScene, li, id)
  ]_vars

(***************************************************************************)
(* The three drag tools side by side                                       *)
(***************************************************************************)
\* a point on the second rectangle of MoveScene and a point on neither
DragPoints == {Pt(125, 125), Pt(300, 300)}

NextDrag ==
  \/ initUI(DefaultPanel)
  \/ \E toolId \in {"move", "rotate", "scale"} : setActiveTool(toolId)
  \/ onLoadScene(MoveScene)
  \/ \E c \in DragPoints : handleMoveToolDown(c)
  \/ \E c \in DragPoints : handleMoveToolMove(c, Pt(32, 32))
  \/ \E c \in DragPoints : handleMoveToolUp(c)
  \/ \E c \in DragPoints : handleRotateToolDown(c)
  \/ \E c \in DragPoints : handleRotateToolMove(c)
  \/ \E c \in DragPoints : handleRotateToolUp(c)
  \/ \E c \in DragPoints : handleScaleToolDown(c)
  \/ \E c \in DragPoints : handleScaleToolMove(c)
  \/ \E c \in DragPoints : handleScaleToolUp(c)

SpecDrag == Init /\ [][NextDrag]_vars

\* the drag state of a drag tool; Idle is the state with none
InfoOf(tool) ==
  CASE tool = "move" -> dragInfo
    [] tool = "rotate" -> rotateInfo
    [] tool = "scale" -> scaleInfo

\* a pointer-down of the active drag tool at c
DragDown(c) ==
  \/ activeTool = "move" /\ handleMoveToolDown(c)
  \/ activeTool = "rotate" /\ handleRotateToolDown(c)
  \/ activeTool = "scale" /\ handleScaleToolDown(c)

\* C17: the move, rotate and scale tools follow Idle -> Dragging -> Idle:
\* a pointer-down with no hit leaves the Idle tool Idle, no drag state is
\* captured and the pointer-moves of an Idle tool change no object; a
\* pointer-down with a hit enters Dragging; a pointer-up always returns the
\* tool to Idle with its drag state cleared.
C17_DragCycle ==
  [][(activeTool \in {"move", "rotate", "scale"}) =>
       ( /\ ev' = "down" =>
              (\A c \in DragPoints :
                 DragDown(c) =>
                   IF getObjectAtCoords(activeScene, c.x, c.y).hit
                   THEN InfoOf(activeTool)'.set /\ isDragging'
                   ELSE (~InfoOf(activeTool).set =>
                          (~InfoOf(activeTool)'.set /\ activeScene' = activeScene)))
         /\ (ev' = "move" /\ ~InfoOf(activeTool).set) =>
              (~InfoOf(activeTool)'.set /\ activeScene' = activeScene)
         /\ ev' = "up" => (InfoOf(activeTool)' = NoInfo /\ isDragging' = FALSE) )]_vars

\* a rotation drag has been through Dragging and is back in Idle
C17_BackToIdle ==
  /\ ev = "up" /\ activeTool = "rotate" /\ rotateInfo = NoInfo /\ ~isDragging
  /\ nDrags > 0
  /\ \E li \in 1..Len(activeScene.layers) :
       \E k \in 1..Len(activeScene.layers[li].objects) :
         activeScene.layers[li].objects[k].rotation # Num(0)

(***************************************************************************)
(* Rendering and the selection shown by the Inspector                      *)
(***************************************************************************)
\* C18: the editor re-renders after every mutation: no event ends with the
\* scene changed and no render performed, so the frame on the canvas is the
\* drawing of the scene the event leaves.
C18_RenderAfterMutation ==
  [][(activeScene' # activeScene /\ hasCanvas' /\ hasScene') =>
       frame' = DrawFrame(activeScene', zoom', panOffset', canvas')]_vars

\* C19: whenever the selection changes an object:selection event with the
\* current id list is emitted, so after every event the Inspector's
\* selectedObjects equals the editor's selection.
C19_InspectorSelection == inspectorSelectedObjects = selectedObjects

(***************************************************************************)
(* Scenes whose active layer is missing                                    *)
(***************************************************************************)
NextLayer ==
  \/ initUI(DefaultPanel)
  \/ setActiveTool("tile")
  \/ SelectTile(TRUE, 2)
  \/ onNewScene(SmallConfig)
  \/ \E sc \in {EmptyScene, OrphanScene} : onLoadScene(sc)
  \/ \E d \in AddInputs : onAddObject(d)
  \/ \E c \in TilePoints : handleTileToolDown(c)
  \/ \E c \in TilePoints : handleTileToolMove(c)
  \/ \E c \in TilePoints : handleTileToolUp(c)

SpecLayer == Init /\ [][NextLayer]_vars

\* scene.activeLayer is the id of none of the layers
NoActiveLayer ==
  hasScene /\ \A i \in 1..Len(activeScene.layers) : activeScene.layers[i].id # activeScene.activeLayer

\* C20: when scene.activeLayer matches no layer (zero layers included),
\* object:add, the tile pointer-down and the tile pointer-move each return
\* leaving the scene and the selection unchanged.
C20_NoActiveLayer ==
  [][(/\ NoActiveLayer
      /\ \/ ev' = "object:add"
         \/ ev' \in {"down", "move"} /\ activeTool = "tile")
     => (activeScene' = activeScene /\ selectedObjects' = selectedObjects)]_vars

\* a tile pointer-down with a tileset has returned on a scene that has a
\* layer but no active one
C20_DownIgnored ==
  /\ ev = "down" /\ activeTool = "tile" /\ appTileset /\ isDragging
  /\ NoActiveLayer /\ Len(activeScene.layers) > 0

(***************************************************************************)
(* render() called on its own                                              *)
(***************************************************************************)
\* a render that also clears the selection it has outlined
renderCall_Deselects ==
  /\ selectedObjects' = <<>>
  /\ UNCHANGED <<hasCanvas, canvas, snapToGrid, zoom, panOffset>>
  /\ UNCHANGED <<hasScene, activeScene, sceneGen, toolVars, envVars, ghostVars>>
  /\ render
  /\ ev' = "render"
  /\ UNCHANGED <<pureVars, coreVars>>

\* this.render() from outside a handler: it reads the scene, the selection,
\* the zoom and the pan offset and writes to the drawing context only
renderCall ==
  /\ UNCHANGED <<hasCanvas, canvas, snapToGrid, zoom, panOffset>>
  /\ UNCHANGED <<sceneVars, toolVars, envVars, ghostVars>>
  /\ render
  /\ ev' = "render"
  /\ UNCHANGED <<pureVars, coreVars>>

NextRender ==
  \/ initUI(DefaultPanel)
  \/ setActiveTool("move")
  \/ setZoom(Num(2))
  \/ onLoadScene(MoveScene)
  \/ \E c \in DragPoints : handleMoveToolDown(c)
  \/ \E c \in DragPoints, d \in Deltas : handleMoveToolMove(c, d)
  \/ \E c \in DragPoints : handleMoveToolUp(c)
  \/ renderCall

SpecRender == Init /\ [][NextRender]_vars

\* C21: rendering never mutates the Scene Model: a render() call leaves the
\* active scene, the selection, the zoom, the pan offset and all tool drag
\* state unchanged, whatever the scene holds; without a drawing surface or
\* without a scene it returns without drawing.
C21_RenderIsPure ==
  [][(ev' = "render") =>
       /\ activeScene' = activeScene /\ hasScene' = hasScene
       /\ selectedObjects' = selectedObjects
       /\ zoom' = zoom /\ panOffset' = panOffset
       /\ dragInfo' = dragInfo /\ rotateInfo' = rotateInfo /\ scaleInfo' = scaleInfo
       /\ lastPlacedTile' = lastPlacedTile /\ isDragging' = isDragging
       /\ (~hasCanvas \/ ~hasScene) => frame' = frame]_vars

\* render() has run in the middle of a drag, zoomed in, with a selection
C21_RenderedInDrag ==
  /\ ev = "render" /\ frame.drawn /\ dragInfo.set /\ isDragging
  /\ selectedObjects # <<>> /\ zoom = Num(2)

\* C22: in every reachable state each id in the editor's selection names an
\* object that exists in some layer of the active scene.
C22_SelectionExists ==
  \A k \in 1..Len(selectedObjects) :
    hasScene /\ selectedObjects[k] \in IdsFrom(activeScene, 1)

(***************************************************************************)
(* core/EventBus.js, for one event name                                    *)
(***************************************************************************)
\* what the subscribed functions do when called
HandlerFns == {"plain", "throws", "reemit", "subscribes", "unsubscribes"}

\* a subscription: the function pushed on the array.  once = 0 is the handler
\* itself; once = k is the k-th wrappedHandler made by once(), around fn
Sub(fn, k) == [fn |-> fn, once |-> k]

\* this.eventHandlers[eventName].filter(registered => registered !== handler)
Unsubscribed(handlers, sub) == SelectSeq(handlers, LAMBDA registered : registered # sub)

RECURSIVE EmitFrom(_)
RECURSIVE Deliver(_, _, _, _)
RECURSIVE Invoke(_, _, _)
RECURSIVE Body(_, _)

\* the body of a subscribed function; a re-entrant emit is made while the
\* handler's own budget lasts; a throw is caught by the emit that called
Body(b, fn) ==
  CASE fn = "reemit" -> IF b.fuel > 0 THEN EmitFrom([b EXCEPT !.fuel = @ - 1]) ELSE b
    [] fn = "subscribes" -> [b EXCEPT !.handlers = Append(@, Sub("plain", 0))]
    [] fn = "unsubscribes" -> [b EXCEPT !.handlers = Unsubscribed(@, Sub("plain", 0))]
    [] OTHER -> b

\* handler(...args) ; a wrappedHandler first takes itself off, then calls
Invoke(b, sub, em) ==
  LET called == [b EXCEPT !.delivered = Append(@, [sub |-> sub, em |-> em])]
  IN  IF sub.once = 0 THEN Body(called, sub.fn)
      ELSE Body([called EXCEPT !.handlers = Unsubscribed(@, sub),
                               !.invoked[sub.once] = @ + 1], sub.fn)

\* a forEach over the live array instead of the copy
Deliver_Live(b, handlers, i, em) ==
  IF i > Len(b.handlers) THEN b
  ELSE Deliver(Invoke(b, b.handlers[i], em), handlers, i + 1, em)

\* handlers.forEach(handler => { try { handler(...args) } catch ... })
Deliver(b, handlers, i, em) ==
  IF i > Len(handlers) THEN b
  ELSE Deliver(Invoke(b, handlers[i], em), handlers, i + 1, em)

\* emit(eventName): nothing without handlers, else a copy of the array is
\* walked ; em numbers the emissions of one outer emit
EmitFrom(b) ==
  IF b.handlers = <<>> THEN b
  ELSE Deliver([b EXCEPT !.started = Append(@, b.handlers)], b.handlers, 1,
               Len(b.started) + 1)

busRest == <<editorVars, moduleVars, panelVars, fileVars, configVars>>

on(fn) ==
  /\ Len(eventHandlers) < MaxHandlers
  /\ eventHandlers' = Append(eventHandlers, Sub(fn, 0))
  /\ UNCHANGED <<wrappers, invoked>>
  /\ delivered' = <<>> /\ started' = <<>>
  /\ ev' = "on"
  /\ UNCHANGED busRest

once(fn) ==
  /\ Len(eventHandlers) < MaxHandlers
  /\ wrappers < MaxOnce
  /\ wrappers' = wrappers + 1
  /\ eventHandlers' = Append(eventHandlers, Sub(fn, wrappers + 1))
  /\ UNCHANGED invoked
  /\ delivered' = <<>> /\ started' = <<>>
  /\ ev' = "once"
  /\ UNCHANGED busRest

off(sub) ==
  /\ eventHandlers' = Unsubscribed(eventHandlers, sub)
  /\ UNCHANGED <<wrappers, invoked>>
  /\ delivered' = <<>> /\ started' = <<>>
  /\ ev' = "off"
  /\ UNCHANGED busRest

emit ==
  LET b == EmitFrom([handlers |-> eventHandlers, invoked |-> invoked,
                     delivered |-> <<>>, started |-> <<>>, fuel |-> MaxReentry])
  IN  /\ Len(b.handlers) <= MaxHandlers
      /\ eventHandlers' = b.handlers
      /\ invoked' = b.invoked
      /\ delivered' = b.delivered
      /\ started' = b.started
      /\ UNCHANGED wrappers
      /\ ev' = "emit"
      /\ UNCHANGED busRest

\* the subscriptions now on the array
Subscribed == {eventHandlers[k] : k \in 1..Len(eventHandlers)}

NextBus ==
  \/ \E fn \in HandlerFns : on(fn)
  \/ \E fn \in {"plain", "throws"} : once(fn)
  \/ \E sub \in Subscribed : off(sub)
  \/ emit

SpecBus == Init /\ [][NextBus]_vars

\* C23: a handler subscribed with once(event, h) is invoked at most once
\* over any sequence of emits of the event, an emit made from inside another
\* handler during an outer emit included.
C23_OnceAtMostOnce == \A k \in 1..MaxOnce : invoked[k] <= 1

\* the subscriptions called by emission em, in the order of the calls
CalledBy(em) ==
  LET calls == SelectSeq(delivered, LAMBDA c : c.em = em)
  IN  [k \in 1..Len(calls) |-> calls[k].sub]

\* C24: emit invokes exactly the handlers subscribed at the moment it
\* starts, each once per subscription and in subscription order, whether or
\* not a handler throws, subscribes or unsubscribes during the emission.
C24_EmitSnapshot ==
  [][(ev' = "emit") =>
       /\ (eventHandlers = <<>>) => (delivered' = <<>>)
       /\ (eventHandlers # <<>>) => (CalledBy(1)' = eventHandlers)
       /\ \A em \in 1..Len(started') : CalledBy(em)' = started'[em]]_vars

\* an emit has called a handler that an earlier handler of the same emit
\* had unsubscribed, after a handler that threw
C24_Unaffected ==
  /\ ev = "emit"
  /\ \E i, j, k \in 1..Len(delivered) :
       /\ i < j /\ j < k
       /\ delivered[i].sub.fn = "throws"
       /\ delivered[j].sub = Sub("unsubscribes", 0)
       /\ delivered[k].sub = Sub("plain", 0)
       /\ delivered[i].em = 1 /\ delivered[j].em = 1 /\ delivered[k].em = 1

\* ---------------------------------------------------------------------------
\* ModuleManager (src/core/ModuleManager.js)
\* ---------------------------------------------------------------------------
\* The manager's fields as one record, so that the synchronous part of a call
\* can be computed by operators.
Manager ==
  [modules |-> modules, dependencies |-> dependencies,
   initialized |-> initialized, initCalls |-> initCalls]

\* The dependency lists register(name, ...) is called with: none, the other
\* module (which may be unregistered, or close a cycle) and, for "a", itself.
DependencyLists(name) ==
  IF name = "a" THEN {<<>>, <<"a">>, <<"b">>} ELSE {<<>>, <<"a">>}

IsRegistered(m, name) == \E k \in 1..Len(m.modules) : m.modules[k] = name

\* One activation of initialize(name): the dependencies it iterates over and
\* the position of its for-loop.  The activation of initializeAll() has the
\* name "*" and iterates over the sorted module names.
Frame(name, deps) == [name |-> name, deps |-> deps, i |-> 1]

Pop(stack) == SubSeq(stack, 1, Len(stack) - 1)

Bump(stack) == [stack EXCEPT ![Len(stack)].i = @ + 1]

OnStack(stack, name) == \E k \in 1..Len(stack) : stack[k].name = name

Outcome(m, status, stack) == [m |-> m, status |-> status, stack |-> stack]

RECURSIVE Enter(_, _, _)
RECURSIVE Loop(_, _)
\* initialize(name), called with `stack` as its callers, up to its return or
\* to the first await of a module's own initialize().  A name that is already
\* on the stack is a dependency cycle: the call descends without end, which in
\* JavaScript ends in a rejected promise (stack overflow) or never settles.
Enter(m, stack, name) ==
  IF ~IsRegistered(m, name) THEN Outcome(m, "false", stack)
  ELSE IF m.initialized[name] = "yes" THEN Outcome(m, "true", stack)
  ELSE IF OnStack(stack, name) THEN Outcome(m, "noResult", stack)
  ELSE Loop(m, Append(stack, Frame(name, m.dependencies[name])))

\* The for-loop of the top activation from its current position on, and the
\* try block after it: a module unregistered in the meantime makes the block
\* throw a TypeError, which it catches.  Other calls run only while a module's
\* own initialize() is awaited.
Loop(m, stack) ==
  LET f == stack[Len(stack)]
  IN IF f.i > Len(f.deps)
     THEN IF f.name = "*" THEN Outcome(m, "true", Pop(stack))
          ELSE IF ~IsRegistered(m, f.name) THEN Outcome(m, "false", Pop(stack))
          ELSE Outcome([m EXCEPT !.initCalls[f.name] = @ + 1], "awaiting", stack)
     ELSE LET r == Enter(m, stack, f.deps[f.i])
          IN CASE r.status = "true" -> Loop(r.m, Bump(stack))
               [] r.status = "false" ->
                    IF f.name = "*" THEN Loop(r.m, Bump(stack))
                    ELSE Outcome(r.m, "false", Pop(stack))
               [] OTHER -> r

RECURSIVE Continue(_, _, _)
\* The activation above the top of `stack` has returned v: the callers go on.
Continue(m, stack, v) ==
  IF stack = <<>> THEN Outcome(m, v, <<>>)
  ELSE IF v = "noResult" THEN Outcome(m, v, <<>>)
  ELSE IF v = "false" /\ stack[Len(stack)].name # "*"
       THEN Continue(m, Pop(stack), "false")
  ELSE LET r == Loop(m, Bump(stack))
       IN IF r.status = "awaiting" THEN r
          ELSE Continue(r.m, Pop(stack), r.status)

RECURSIVE visit(_, _, _)
RECURSIVE visitEach(_, _, _, _)
\* sortByDependency's visit(name): st holds visited, temp, order and whether
\* a cycle made it throw.
visit(m, st, name) ==
  IF st.thrown THEN st
  ELSE IF name \in st.temp THEN [st EXCEPT !.thrown = TRUE]
  ELSE IF name \in st.visited THEN st
  ELSE LET deps == IF IsRegistered(m, name) THEN m.dependencies[name] ELSE <<>>
           down == visitEach(m, [st EXCEPT !.temp = @ \cup {name}], deps, 1)
       IN IF down.thrown THEN down
          ELSE [down EXCEPT !.temp = @ \ {name}, !.visited = @ \cup {name},
                            !.order = Append(@, name)]

visitEach(m, st, deps, j) ==
  IF j > Len(deps) THEN st
  ELSE visitEach(m, visit(m, st, deps[j]), deps, j + 1)

RECURSIVE visitAll(_, _, _)
visitAll(m, st, k) ==
  IF k > Len(m.modules) THEN st
  ELSE visitAll(m, visit(m, st, m.modules[k]), k + 1)

sortByDependency(m) ==
  visitAll(m, [visited |-> {}, temp |-> {}, order |-> <<>>, thrown |-> FALSE], 1)

\* What a call leaves behind: the manager's fields, and either one more
\* awaiting call or a returned value.
Settle(r, others) ==
  /\ modules' = r.m.modules
  /\ dependencies' = r.m.dependencies
  /\ initialized' = r.m.initialized
  /\ initCalls' = r.m.initCalls
  /\ \A name \in ModuleNames : r.m.initCalls[name] <= MaxInitCalls
  /\ IF r.status = "awaiting"
     THEN /\ BagCardinality(others) < MaxPending
          /\ pendingInits' = others (+) SetToBag({r.stack})
          /\ settled' = "none"
     ELSE /\ pendingInits' = others
          /\ settled' = r.status

moduleRest == <<editorVars, busVars, panelVars, fileVars, configVars>>

register(name, deps) ==
  /\ IF IsRegistered(Manager, name)
     THEN /\ UNCHANGED <<modules, dependencies, initialized, initCalls>>
          /\ settled' = "false"
     ELSE /\ modules' = Append(modules, name)
          /\ dependencies' = [dependencies EXCEPT ![name] = deps]
          /\ initialized' = [initialized EXCEPT ![name] = "no"]
          /\ initCalls' = [initCalls EXCEPT ![name] = 0]
          /\ settled' = "true"
  /\ UNCHANGED pendingInits
  /\ ev' = "register"
  /\ UNCHANGED moduleRest

initialize(name) ==
  /\ Settle(Enter(Manager, <<>>, name), pendingInits)
  /\ ev' = "initialize"
  /\ UNCHANGED moduleRest

initializeAll ==
  /\ LET sorted == sortByDependency(Manager)
     IN IF sorted.thrown
        THEN Settle(Outcome(Manager, "noResult", <<>>), pendingInits)
        ELSE Settle(Continue(Manager, <<Frame("*", sorted.order)>>, "true"),
                    pendingInits)
  /\ ev' = "initializeAll"
  /\ UNCHANGED moduleRest

\* The module's own initialize() that an awaiting call waits for resolves (or
\* throws): the awaiting activation marks the module initialized and returns
\* true (or catches and returns false), and its callers go on.
resume(stack, resolves) ==
  /\ BagIn(stack, pendingInits)
  /\ LET name == stack[Len(stack)].name
         m == IF resolves THEN [Manager EXCEPT !.initialized[name] = "yes"]
              ELSE Manager
     IN Settle(Continue(m, Pop(stack), IF resolves THEN "true" ELSE "false"),
               pendingInits (-) SetToBag({stack}))
  /\ ev' = "resume"
  /\ UNCHANGED moduleRest

unregister(name) ==
  /\ IF \/ ~IsRegistered(Manager, name)
        \/ \E k \in 1..Len(modules) : \E j \in 1..Len(dependencies[modules[k]]) :
              dependencies[modules[k]][j] = name
     THEN /\ UNCHANGED <<modules, dependencies, initialized, initCalls>>
          /\ settled' = "false"
     ELSE /\ modules' = SelectSeq(modules, LAMBDA registered : registered # name)
          /\ dependencies' = [dependencies EXCEPT ![name] = <<>>]
          /\ initialized' = [initialized EXCEPT ![name] = "absent"]
          /\ initCalls' = [initCalls EXCEPT ![name] = 0]
          /\ settled' = "true"
  /\ UNCHANGED pendingInits
  /\ ev' = "unregister"
  /\ UNCHANGED moduleRest

NextModules ==
  \/ \E name \in ModuleNames : \E deps \in DependencyLists(name) : register(name, deps)
  \/ \E name \in ModuleNames : initialize(name)
  \/ initializeAll
  \/ \E stack \in BagToSet(pendingInits) : \E resolves \in BOOLEAN :
       resume(stack, resolves)
  \/ \E name \in ModuleNames : unregister(name)

SpecModules == Init /\ [][NextModules]_vars

\* C25: over any interleaving of initialize(name) and initializeAll(), the
\* registered module's own initialize() is called at most once.
C25_InitializeOnce == \A name \in ModuleNames : initCalls[name] <= 1

\* C26: a module marked initialized has every declared dependency registered
\* and marked initialized.
C26_DependenciesInitialized ==
  \A name \in ModuleNames :
    initialized[name] = "yes" =>
      \A j \in 1..Len(dependencies[name]) :
        /\ IsRegistered(Manager, dependencies[name][j])
        /\ initialized[dependencies[name][j]] = "yes"

\* C27: every initialize(name) call returns a boolean, whatever the modules
\* and dependencies are, cycles and self-dependencies included.
C27_BooleanResult ==
  ev = "initialize" => settled \in {"none", "true", "false"}

\* ---------------------------------------------------------------------------
\* UIManager panels (src/core/UIManager.js)
\* ---------------------------------------------------------------------------
\* The panel createPanel stores; hidden is element.style.display = 'none',
\* wasVisible is absent (FALSE) until a maximized panel hides this one.
NewPanel ==
  [visible |-> TRUE, minimized |-> FALSE, maximized |-> FALSE,
   wasVisible |-> FALSE, hidden |-> FALSE]

\* saveLayout: what it stores of each panel.
SavedLayout(ps) ==
  [id \in PanelIds |->
     IF ps[id] = NoPanel THEN NoPanel
     ELSE [visible |-> ps[id].visible, minimized |-> ps[id].minimized,
           maximized |-> ps[id].maximized]]

\* The loops of togglePanelMaximized over the other panels.
HideOthers(ps, id) ==
  [other \in PanelIds |->
     IF other # id /\ ps[other] # NoPanel /\ ps[other].visible
     THEN [ps[other] EXCEPT !.hidden = TRUE, !.wasVisible = TRUE]
     ELSE ps[other]]

RestoreOthers(ps, id) ==
  [other \in PanelIds |->
     IF other # id /\ ps[other] # NoPanel /\ ps[other].wasVisible
     THEN [ps[other] EXCEPT !.hidden = FALSE, !.wasVisible = FALSE]
     ELSE ps[other]]

RECURSIVE ToggleMinimized(_, _)
RECURSIVE ToggleMaximized(_, _)
\* togglePanelMinimized on an existing panel; u holds the panels, the stored
\* layout and the number of activations so far.
ToggleMinimized(u, id) ==
  LET flipped == [u EXCEPT !.panels[id].minimized = ~@, !.calls = @ + 1]
      exclusive ==
        IF flipped.panels[id].minimized /\ flipped.panels[id].maximized
        THEN ToggleMaximized(flipped, id)
        ELSE flipped
  IN [exclusive EXCEPT !.layout = SavedLayout(exclusive.panels)]

ToggleMaximized_NoExclusion(u, id) ==
  LET flipped == [u EXCEPT !.panels[id].maximized = ~@, !.calls = @ + 1]
      others ==
        [flipped EXCEPT !.panels =
           IF flipped.panels[id].maximized THEN HideOthers(@, id)
           ELSE RestoreOthers(@, id)]
  IN [others EXCEPT !.layout = SavedLayout(others.panels)]

ToggleMaximized(u, id) ==
  LET flipped == [u EXCEPT !.panels[id].maximized = ~@, !.calls = @ + 1]
      others ==
        [flipped EXCEPT !.panels =
           IF flipped.panels[id].maximized THEN HideOthers(@, id)
           ELSE RestoreOthers(@, id)]
      exclusive ==
        IF others.panels[id].maximized /\ others.panels[id].minimized
        THEN ToggleMinimized(others, id)
        ELSE others
  IN [exclusive EXCEPT !.layout = SavedLayout(exclusive.panels)]

panelRest == <<editorVars, busVars, moduleVars, fileVars, configVars>>

createPanel(id) ==
  /\ panels' = [panels EXCEPT ![id] = NewPanel]
  /\ UNCHANGED <<layout, toggleCalls, toggled>>
  /\ ev' = "createPanel"
  /\ UNCHANGED panelRest

showPanel(id) ==
  /\ IF panels[id] = NoPanel THEN UNCHANGED <<panels, layout>>
     ELSE /\ panels' = [panels EXCEPT ![id].hidden = FALSE, ![id].visible = TRUE]
          /\ layout' = SavedLayout(panels')
  /\ UNCHANGED <<toggleCalls, toggled>>
  /\ ev' = "showPanel"
  /\ UNCHANGED panelRest

hidePanel(id) ==
  /\ IF panels[id] = NoPanel THEN UNCHANGED <<panels, layout>>
     ELSE /\ panels' = [panels EXCEPT ![id].hidden = TRUE, ![id].visible = FALSE]
          /\ layout' = SavedLayout(panels')
  /\ UNCHANGED <<toggleCalls, toggled>>
  /\ ev' = "hidePanel"
  /\ UNCHANGED panelRest

togglePanelMinimized(id) ==
  /\ IF panels[id] = NoPanel
     THEN /\ UNCHANGED <<panels, layout>>
          /\ toggleCalls' = 1
          /\ toggled' = FALSE
     ELSE LET u == ToggleMinimized([panels |-> panels, layout |-> layout,
                                    calls |-> 0], id)
          IN /\ panels' = u.panels
             /\ layout' = u.layout
             /\ toggleCalls' = u.calls
             /\ toggled' = u.panels[id].minimized
  /\ ev' = "togglePanelMinimized"
  /\ UNCHANGED panelRest

togglePanelMaximized(id) ==
  /\ IF panels[id] = NoPanel
     THEN /\ UNCHANGED <<panels, layout>>
          /\ toggleCalls' = 1
          /\ toggled' = FALSE
     ELSE LET u == ToggleMaximized([panels |-> panels, layout |-> layout,
                                    calls |-> 0], id)
          IN /\ panels' = u.panels
             /\ layout' = u.layout
             /\ toggleCalls' = u.calls
             /\ toggled' = u.panels[id].maximized
  /\ ev' = "togglePanelMaximized"
  /\ UNCHANGED panelRest

NextPanels ==
  \/ \E id \in PanelIds : createPanel(id)
  \/ \E id \in PanelIds : showPanel(id)
  \/ \E id \in PanelIds : hidePanel(id)
  \/ \E id \in PanelIds : togglePanelMinimized(id)
  \/ \E id \in PanelIds : togglePanelMaximized(id)

SpecPanels == Init /\ [][NextPanels]_vars

\* C28: after any sequence of togglePanelMinimized and togglePanelMaximized
\* calls, no panel is both minimized and maximized, and a toggle returns after
\* at most one nested call of the other toggle.
C28_NeverBoth ==
  /\ \A id \in PanelIds :
       panels[id] # NoPanel => ~(panels[id].minimized /\ panels[id].maximized)
  /\ toggleCalls <= 2

\* C28 witness: maximizing a minimized panel has un-minimized it through the
\* nested call.
C28_MaximizedMinimized ==
  /\ ev = "togglePanelMaximized"
  /\ toggleCalls = 2
  /\ \E id \in PanelIds :
       /\ panels[id] # NoPanel
       /\ panels[id].maximized
       /\ ~panels[id].minimized

\* ---------------------------------------------------------------------------
\* FileSystemManager file cache (src/core/FileSystemManager.js)
\* ---------------------------------------------------------------------------
\* A file's content is the number of the write that produced it (0: the file
\* as it was found); what readFile returns under an encoding is that content
\* decoded, which the model keeps as the content's number.
fileRest == <<editorVars, busVars, moduleVars, panelVars, configVars>>

cacheKey(filePath, encoding) == <<filePath, encoding>>

\* readFile: the cached entry if there is one, otherwise the file, which it
\* caches; a missing file makes it throw.
readFile(filePath, encoding) ==
  /\ IF fileCache[cacheKey(filePath, encoding)] # -1
     THEN /\ readResult' = [path |-> filePath, encoding |-> encoding,
                            content |-> fileCache[cacheKey(filePath, encoding)],
                            threw |-> FALSE]
          /\ UNCHANGED fileCache
     ELSE IF disk[filePath] = -1
     THEN /\ readResult' = [path |-> filePath, encoding |-> encoding,
                            content |-> -1, threw |-> TRUE]
          /\ UNCHANGED fileCache
     ELSE /\ fileCache' = [fileCache EXCEPT ![cacheKey(filePath, encoding)] =
                             disk[filePath]]
          /\ readResult' = [path |-> filePath, encoding |-> encoding,
                            content |-> disk[filePath], threw |-> FALSE]
  /\ UNCHANGED <<disk, written>>
  /\ ev' = "readFile"
  /\ UNCHANGED fileRest

\* writeFile: the file system writes the content or fails; after a write the
\* entry of this path and encoding holds the content.
writeFile(filePath, encoding, fails) ==
  /\ LET content == (IF disk[filePath] = -1 THEN 0 ELSE disk[filePath]) + 1
     IN /\ content <= MaxWrites
        /\ IF fails THEN UNCHANGED <<disk, fileCache, written>>
           ELSE /\ disk' = [disk EXCEPT ![filePath] = content]
                /\ fileCache' = [fileCache EXCEPT
                                   ![cacheKey(filePath, encoding)] = content]
                /\ written' = [written EXCEPT ![filePath] = content]
  /\ UNCHANGED readResult
  /\ ev' = "writeFile"
  /\ UNCHANGED fileRest

clearCache ==
  /\ fileCache' = [key \in Paths \X Encodings |-> -1]
  /\ UNCHANGED <<disk, written, readResult>>
  /\ ev' = "clearCache"
  /\ UNCHANGED fileRest

removeFromCache(filePath) ==
  /\ fileCache' = [key \in Paths \X Encodings |->
                     IF key[1] = filePath THEN -1 ELSE fileCache[key]]
  /\ UNCHANGED <<disk, written, readResult>>
  /\ ev' = "removeFromCache"
  /\ UNCHANGED fileRest

NextFiles ==
  \/ \E filePath \in Paths : \E encoding \in Encodings : readFile(filePath, encoding)
  \/ \E filePath \in Paths : \E encoding \in Encodings : \E fails \in BOOLEAN :
       writeFile(filePath, encoding, fails)
  \/ clearCache
  \/ \E filePath \in Paths : removeFromCache(filePath)

SpecFiles == Init /\ [][NextFiles]_vars

\* C29: once writeFile(path, content, enc) has succeeded, readFile(path, enc2)
\* returns, for every enc2, no content older than that write.
C29_NoStaleRead ==
  (ev = "readFile" /\ ~readResult.threw /\ written[readResult.path] > 0)
    => readResult.content >= written[readResult.path]

\* ---------------------------------------------------------------------------
\* ConfigurationManager recent projects (src/unnamed/part_002)
\* ---------------------------------------------------------------------------
\* Project paths are numbered: path k stands for the k-th project directory.
configRest == <<editorVars, busVars, moduleVars, panelVars, fileVars>>

RecentLimit == 10

\* The names a project is opened under: the first project has been renamed
\* at some time and is opened under either name.
ProjectNames(projectPath) ==
  IF projectPath = 1 THEN {"Game", "Demo"} ELSE {"Game"}

Filtered(projects, projectPath) ==
  SelectSeq(projects, LAMBDA project : project.path # projectPath)

Truncated(projects) ==
  IF Len(projects) > RecentLimit THEN SubSeq(projects, 1, RecentLimit)
  ELSE projects

RecentAfter_NoFilter(projects, projectPath, projectName, at) ==
  Truncated(<<[path |-> projectPath, name |-> projectName, lastOpened |-> at]>>
            \o projects)

\* The list addRecentProject stores: the other projects behind the new entry,
\* cut to the limit.
RecentAfter(projects, projectPath, projectName, at) ==
  Truncated(<<[path |-> projectPath, name |-> projectName, lastOpened |-> at]>>
            \o Filtered(projects, projectPath))

\* save() is started and not awaited: the file is written or the write fails.
addRecentProject(projectPath, projectName, saves) ==
  /\ recentProjects' = RecentAfter(recentProjects, projectPath, projectName, now)
  /\ configSaved' = saves
  /\ added' = [path |-> projectPath, name |-> projectName]
  /\ ev' = "addRecentProject"
  /\ UNCHANGED configRest

\* The paths a call is made with: projects 1 and 2, which are opened again
\* and again, and the first project that is not on the list.
ListedPaths == {recentProjects[k].path : k \in 1..Len(recentProjects)}

CallPaths ==
  {1, 2} \cup
  {path \in 1..(RecentLimit + 1) :
     path \notin ListedPaths /\ \A lower \in 1..(path - 1) : lower \in ListedPaths}

NextProjects ==
  \E projectPath \in CallPaths : \E projectName \in ProjectNames(projectPath) :
    \E saves \in BOOLEAN : addRecentProject(projectPath, projectName, saves)

SpecProjects == Init /\ [][NextProjects]_vars

\* C30: from the empty list, after any sequence of addRecentProject calls the
\* list has at most 10 entries, no two entries have the same path, and the
\* first entry is the project of the most recent call.
C30_RecentProjects ==
  /\ Len(recentProjects) <= 10
  /\ \A i, j \in 1..Len(recentProjects) :
       recentProjects[i].path = recentProjects[j].path => i = j
  /\ ev = "addRecentProject" =>
       /\ recentProjects # <<>>
       /\ recentProjects[1].path = added.path
       /\ recentProjects[1].name = added.name

\* C30 witness: an eleventh project has pushed the oldest one off a full list.
C30_EleventhProject ==
  /\ ev = "addRecentProject"
  /\ Len(recentProjects) = 10
  /\ recentProjects[1].path = 11
  /\ \A k \in 1..Len(recentProjects) : recentProjects[k].path # 1

====
